---- MODULE Spec2Model ----
(***************************************************************************)
(* Selection & Progression Engine of kwyjibo: the catalogue (SongLibrary), *)
(* the key progression model (KeyManager), the selector (SongSelector) and *)
(* the random source (QuantumRandom).                                      *)
(*                                                                         *)
(* A song is identified by its position in the catalogue array: allSongs   *)
(* is the sequence of the songs' keys, and song id i is the i-th element.  *)
(* Candidate arrays are sequences of ids, in the order the code builds     *)
(* them.                                                                   *)
(***************************************************************************)
EXTENDS Integers, Sequences, FiniteSets, TLC

----------------------------------------------------------------------------
(* Bounds of the model *)

MaxSongs == 2        \* longest catalogue
MaxTracks == 6       \* selectTrack() calls per session (trackCount cap)
MaxPending == 2      \* selectTrack() calls in flight at once
MaxRapid == 2        \* selectTrack() calls per session when calls overlap
MaxOps == 2          \* operations other than selectTrack() in one run
SerialOps == 1       \* of these, in the runs of Spec and SerialSpec
TimesCap == 2        \* timesReturned counts up to TimesCap
FloatDen == 2        \* getFloat() is modelled with resolution 1/FloatDen

SongKeys == {1, 6}               \* keys the catalogue's songs are drawn from
SongIds == 1..(MaxSongs + 1)     \* ids handed to markPlayed, one of them no song's
StartKeys == {1, 5}              \* keys the KeyManager is constructed with
PoolSizes == {1, 5}              \* options.candidatePoolSize
MinScores == {5, 11}             \* options.minCompatibilityScore

MaxHex == 3          \* longest hexadecimal(length) asked for directly
MaxStored == 5       \* longest 'qrng-cache' item an earlier session left behind
ReplyExtra == 1      \* digits the entropy service may answer beyond those asked for
MaxArray == 2        \* longest array handed to getChoice

MaxShuffle == 3      \* longest array handed to shuffle

\* the 16-digit draws getInteger is checked on: a top digit, twelve equal
\* digits and three last digits
TopDigits == {0, 5, 8, 15}
MidDigits == {0, 5, 15}
LastDigits == {0, 5, 11, 12, 15}
\* the ranges getInteger is checked on: min, and max - min
Mins == {-2, 0, 5}
Spans == {0, 1, 2, 9}
Elements == {1, 2}               \* elements of the arrays handed to shuffle

MaxList == 2         \* longest song list handed to new SongLibrary()
MaxSteps == 13       \* next() calls in one walk round the keys

\* the fields of the songs handed to new SongLibrary()
InputIds == {0, 1, 2}
InputNames == {"", "a"}
InputKeys == {0, 1, 12, 13}
InputTempos == {94, 120}

MaxLoads == 2        \* load() calls made on one loader
MaxRequests == 2     \* longest request list handed to load()

MaxConcurrents == {0, 1, 2}      \* options.maxConcurrent
Retries == {0, 1}                \* options.defaultRetries

MaxClock == 3        \* Date.now() values the buffer cache sees

BufferIds == {"a", "b", "c"}     \* ids handed to the buffer cache
BufferSizes == {1, 3}            \* estimateBufferSize(result.buffer)
MaxSizes == {0, 1, 2}            \* CacheOptions.maxSize
MaxMemories == {2, 4}            \* CacheOptions.maxMemoryBytes

CacheSizes == {4, 20}            \* options.cacheSize
Thresholds == {[num |-> 1, den |-> 4], [num |-> 1, den |-> 2]}  \* options.refillThreshold
\* numbers handed to getInteger, as fractions: 0, 2 and 1.5
Numbers == {[num |-> 0, den |-> 1], [num |-> 2, den |-> 1], [num |-> 3, den |-> 2]}

----------------------------------------------------------------------------
(* Program constants *)

MagicInterval == 5
DefaultTempo == 94
FloatDigits == 16     \* digits of one getFloat() draw
MantissaBits == 53    \* significant bits of a Number
Tempos == {84, 94, 102}
Keys == 1..12

HARMONIC_SCORES ==
  << <<10, 7, 5, 3, 2, 1, 2, 9, 6, 4, 3, 8>>,
     <<7, 10, 8, 6, 4, 2, 1, 3, 9, 7, 5, 4>>,
     <<5, 8, 10, 9, 7, 4, 2, 1, 4, 9, 8, 6>>,
     <<3, 6, 9, 10, 9, 7, 4, 2, 1, 5, 9, 8>>,
     <<2, 4, 7, 9, 10, 9, 7, 4, 2, 1, 6, 9>>,
     <<1, 2, 4, 7, 9, 10, 9, 7, 4, 2, 1, 5>>,
     <<2, 1, 2, 4, 7, 9, 10, 9, 7, 4, 2, 1>>,
     <<9, 3, 1, 2, 4, 7, 9, 10, 9, 7, 4, 2>>,
     <<6, 9, 4, 1, 2, 4, 7, 9, 10, 9, 7, 4>>,
     <<4, 7, 9, 5, 1, 2, 4, 7, 9, 10, 9, 7>>,
     <<3, 5, 8, 9, 6, 1, 2, 4, 7, 9, 10, 9>>,
     <<8, 4, 6, 8, 9, 5, 1, 2, 4, 7, 9, 10>> >>

----------------------------------------------------------------------------
(* KeyManager: pure parts *)

\* mutant: a score read from the diagonal when the keys run downwards
scoreCompatibility_OneWay(fromKey, toKey) ==
  IF fromKey < toKey THEN HARMONIC_SCORES[fromKey][toKey]
  ELSE HARMONIC_SCORES[fromKey][fromKey]

scoreCompatibility(fromKey, toKey) == HARMONIC_SCORES[fromKey][toKey]

\* KeyManager.next(): the key one step on in the given direction
nextKey(key, dir) ==
  IF dir = "forward"
    THEN (IF key = 12 THEN 1 ELSE key + 1)
    ELSE (IF key = 1 THEN 12 ELSE key - 1)

\* Array.prototype.sort with comparator (a, b) => score(b) - score(a): a
\* stable sort, highest score first.  scoreOf maps each element to its score.
RECURSIVE SortFrom(_, _, _)
SortFrom(s, seq, scoreOf) ==
  IF s = 0 THEN << >>
  ELSE SelectSeq(seq, LAMBDA x : scoreOf[x] = s) \o SortFrom(s - 1, seq, scoreOf)

sortByScore(seq, scoreOf) == SortFrom(10, seq, scoreOf)

getCompatibleKeys(fromKey) ==
  sortByScore(<<1, 2, 3, 4, 5, 6, 7, 8, 9, 10, 11, 12>>,
              [k \in Keys |-> scoreCompatibility(fromKey, k)])

----------------------------------------------------------------------------
(* SongLibrary: pure parts.  songs is the allSongs array, played the       *)
(* playedIds set.                                                          *)

getAllSongs(songs) == [i \in 1..Len(songs) |-> i]

\* filter({ key }): the songs of that key, in catalogue order
filterKey(songs, key) ==
  SelectSeq(getAllSongs(songs), LAMBDA i : songs[i] = key)

\* getUnplayed(): filter({ excludeIds: playedIds })
getUnplayed(songs, played) ==
  SelectSeq(getAllSongs(songs), LAMBDA i : i \notin played)

\* mutant: getUnplayed({ key }) that forgets excludeIds
getUnplayedKey_NoExclude(songs, played, key) == filterKey(songs, key)

\* getUnplayed({ key })
getUnplayedKey(songs, played, key) ==
  SelectSeq(getAllSongs(songs), LAMBDA i : songs[i] = key /\ i \notin played)

----------------------------------------------------------------------------
(* QuantumRandom, as far as the selector uses it.  getFloat() divides the  *)
(* parsed 16-digit draw by 16^16; parseInt rounds the draw to a double, so *)
(* the draws at the very top of the range round up to 16^16 and the        *)
(* quotient is exactly 1.  A float is modelled as f / FloatDen with        *)
(* f in 0..FloatDen, f = FloatDen being that rounded-up draw.              *)

getFloat == 0..FloatDen

\* getInteger(min, max) for the draw f: Math.floor(randomFloat * range) + min
getInteger(min, max, f) == ((f * (max - min + 1)) \div FloatDen) + min

\* getChoice(array) for the draw f: the index it reads; array[index] is
\* undefined (and getChoice throws) when the index is past the end
getChoiceIndex(array, f) == getInteger(0, Len(array) - 1, f) + 1

getChoiceThrows(array, f) ==
  Len(array) = 0 \/ getChoiceIndex(array, f) > Len(array)

----------------------------------------------------------------------------
(* SongSelector: the synchronous parts of a selection.  opts is the        *)
(* options record.                                                         *)

\* the for-loop of getCompatibleCandidates over compatibleKeys[i..]
RECURSIVE accumulateCandidates(_, _, _, _, _, _)
accumulateCandidates(songs, played, compatibleKeys, i, candidates, opts) ==
  IF i > Len(compatibleKeys) THEN candidates
  ELSE LET more == candidates \o getUnplayedKey(songs, played, compatibleKeys[i])
       IN IF Len(more) >= opts.candidatePoolSize * 2
            THEN more
            ELSE accumulateCandidates(songs, played, compatibleKeys, i + 1, more, opts)

getCompatibleCandidates(songs, played, currentKey, opts) ==
  LET compatibleKeys ==
        SelectSeq(getCompatibleKeys(currentKey),
                  LAMBDA k : scoreCompatibility(currentKey, k) >= opts.minCompatibilityScore)
  IN accumulateCandidates(songs, played, compatibleKeys, 1, << >>, opts)

\* mutant: scoreCandidates without its filter on the minimum score
scoreCandidates_NoFilter(songs, candidates, currentKey, opts) ==
  sortByScore(candidates,
              [i \in 1..Len(songs) |-> scoreCompatibility(currentKey, songs[i])])

\* scoreCandidates: the candidates at or above the minimum score, best first
scoreCandidates(songs, candidates, currentKey, opts) ==
  LET scoreOf == [i \in 1..Len(songs) |-> scoreCompatibility(currentKey, songs[i])]
  IN sortByScore(SelectSeq(candidates, LAMBDA i : scoreOf[i] >= opts.minCompatibilityScore),
                 scoreOf)

\* Array.prototype.slice(0, n) for n >= 0
sliceTo(seq, n) == SubSeq(seq, 1, IF n < Len(seq) THEN n ELSE Len(seq))

\* mutant: selectFromTopCandidates that always draws from the catalogue
topCandidates_WholeCatalogue(songs, scored, opts) == getAllSongs(songs)

\* selectFromTopCandidates: the array handed to getChoice
topCandidates(songs, scored, opts) ==
  IF Len(scored) = 0 THEN getAllSongs(songs)
  ELSE sliceTo(scored, opts.candidatePoolSize)

\* selectNormal up to the draw: the candidate tiers, the played-set they
\* leave behind and the array handed to getChoice
selectNormal(songs, played, currentKey, opts) ==
  LET c1 == getUnplayedKey(songs, played, currentKey)
      c2 == IF Len(c1) = 0
              THEN getCompatibleCandidates(songs, played, currentKey, opts)
              ELSE c1
      reset3 == Len(c2) = 0
      played3 == IF reset3 THEN {} ELSE played
      c3 == IF reset3 THEN filterKey(songs, currentKey) ELSE c2
      c4 == IF Len(c3) = 0 THEN getUnplayed(songs, played3) ELSE c3
      reset5 == Len(c4) = 0
      played5 == IF reset5 THEN {} ELSE played3
      candidates == IF reset5 THEN getAllSongs(songs) ELSE c4
      scored == scoreCandidates(songs, candidates, currentKey, opts)
  IN [candidates |-> candidates,
      played |-> played5,
      didReset |-> reset3 \/ reset5,
      scored |-> scored,
      pool |-> topCandidates(songs, scored, opts)]

\* mutant: selectMagicNumber that draws from the whole catalogue
selectMagicNumber_AllSongs(songs, played) ==
  [candidates |-> getAllSongs(songs),
   played |-> played,
   didReset |-> FALSE,
   scored |-> << >>,
   pool |-> getAllSongs(songs)]

\* selectMagicNumber up to the draw
selectMagicNumber(songs, played) ==
  LET c1 == getUnplayed(songs, played)
      reset2 == Len(c1) = 0
      candidates == IF reset2 THEN getAllSongs(songs) ELSE c1
  IN [candidates |-> candidates,
      played |-> IF reset2 THEN {} ELSE played,
      didReset |-> reset2,
      scored |-> << >>,
      pool |-> candidates]

----------------------------------------------------------------------------
(* State *)

VARIABLES
  allSongs,        \* SongLibrary.allSongs: the key of each song, by id
  playedIds,       \* SongLibrary.playedIds
  currentKey,      \* KeyManager.currentKey
  direction,       \* KeyManager.direction
  options,         \* SongSelector.options
  currentTempo,    \* SongSelector.currentTempo
  trackCount,      \* SongSelector.trackCount
  lastTrackType,   \* SongSelector.lastTrackType
  pending,         \* selectTrack() calls suspended at their draw, oldest first
  lastResult,      \* the SelectionResult returned last since construction or reset()
  rejected,        \* the selectTrack() call that settled last threw
  timesReturned,   \* observation: how often (up to TimesCap) each id was returned since construction or reset()
  returnedSinceReset, \* observation: ids returned since the played-set was last cleared
  ops,             \* observation: operations other than selectTrack() so far
  qOptions,        \* QuantumRandom: cacheSize, refillThreshold, storage available
  cache,           \* QuantumRandom.cache: the digits, each named by its origin
  stored,          \* the storage item 'qrng-cache': << >> absent, <<value>> present
  isRefilling,     \* QuantumRandom.isRefilling
  requests,        \* fetches in flight: the length each one asked for
  qResult,         \* observation: the QuantumRandom call made last and its outcome
  probe,           \* inputs and result of a pure function under check
  state,           \* KwyjiboEngine.state
  currentTrack,    \* KwyjiboEngine.currentTrack: << >> for null, else <<track>>
  engineResult,    \* observation: the engine call made last and its outcome
  loaderOptions,   \* AudioBufferLoader.options: maxConcurrent, defaultRetries
  cancelled,       \* AudioBufferLoader.cancelled
  loads,           \* the load() calls made, each with the locals it shares with its loadOne() calls
  buffers          \* the AudioBufferCache: its options, its Map, its memory count, the clock

selectorVars == <<allSongs, playedIds, currentKey, direction, options, currentTempo,
                  trackCount, lastTrackType, pending, lastResult, rejected,
                  timesReturned, returnedSinceReset, ops>>

qrngVars == <<qOptions, cache, stored, isRefilling, requests, qResult>>

engineVars == <<state, currentTrack, engineResult>>

loaderVars == <<loaderOptions, cancelled, loads>>

bufferVars == <<buffers>>

vars == <<selectorVars, qrngVars, probe, engineVars, loaderVars, bufferVars>>

libraryVars == <<allSongs, playedIds>>
keyVars == <<currentKey, direction>>
obsVars == <<lastResult, rejected, timesReturned, returnedSinceReset>>

AllIds == 1..Len(allSongs)

NoResult ==
  [status |-> "none", song |-> 0, type |-> "none", tempo |-> 0,
   wasMagicNumber |-> FALSE, candidatesConsidered |-> 0, compatibilityScore |-> 0]

\* no QuantumRandom call made yet
NoCall == [op |-> "none", args |-> << >>, hex |-> << >>, error |-> "none"]

\* no pure function applied yet
NoProbe == [fn |-> "none", in |-> << >>, out |-> << >>]

\* KwyjiboEngine.currentTrack when it is null
Null == << >>

\* no engine call made yet
NoEngineCall == [op |-> "none", error |-> "none", events |-> << >>]

\* the engine is not part of the specification: it stays as constructed
EngineUnused ==
  /\ state = "idle"
  /\ currentTrack = Null
  /\ engineResult = NoEngineCall

\* the loader is not part of the specification: it stays as constructed,
\* with DEFAULT_OPTIONS
LoaderUnused ==
  /\ loaderOptions = [maxConcurrent |-> 6, defaultRetries |-> 3]
  /\ cancelled = FALSE
  /\ loads = << >>

\* the buffer cache is not part of the specification: it stays as
\* constructed, with its default options (50 entries, 100 MB)
BufferUnused ==
  buffers = [maxSize |-> 50, maxMemoryBytes |-> 100 * 1024 * 1024,
             entries |-> << >>, currentMemoryBytes |-> 0, now |-> 0,
             recency |-> << >>, evicted |-> << >>,
             last |-> [op |-> "none", id |-> "", sizeBytes |-> 0]]

\* the selector's specifications take the random source by the draws it
\* hands out (getFloat above); its cache is left out of them
QrngUnused ==
  /\ qOptions = [cacheSize |-> 0, threshold |-> [num |-> 0, den |-> 1],
                 storage |-> FALSE]
  /\ cache = << >>
  /\ stored = << >>
  /\ isRefilling = FALSE
  /\ requests = << >>
  /\ qResult = NoCall
  /\ probe = NoProbe

\* new SongLibrary(songs), new KeyManager(startKey, direction),
\* new SongSelector(library, keyManager, qrng, options)
Init ==
  /\ QrngUnused
  /\ EngineUnused
  /\ LoaderUnused
  /\ BufferUnused
  /\ allSongs \in UNION {[1..n -> SongKeys] : n \in 1..MaxSongs}
  /\ playedIds = {}
  /\ currentKey \in StartKeys
  /\ direction = "forward"
  /\ options \in [candidatePoolSize : PoolSizes,
                  useMagicNumber : BOOLEAN,
                  minCompatibilityScore : MinScores,
                  defaultTempo : {DefaultTempo}]
  /\ currentTempo = options.defaultTempo
  /\ trackCount = 0
  /\ lastTrackType = "body"
  /\ pending = << >>
  /\ lastResult = NoResult
  /\ rejected = FALSE
  /\ timesReturned = [i \in 1..Len(allSongs) |-> 0]
  /\ returnedSinceReset = {}
  /\ ops = 0

----------------------------------------------------------------------------
(* selectTrack() *)

\* the locals of a selectTrack() call at the point where it suspends, with
\* what the call saw on entry (keyAtStart, playedAtStart) and whether its
\* tiers reset the library
CallRecord(count, isMagicNumber, sel, f) ==
  [position |-> count,
   isMagicNumber |-> isMagicNumber,
   candidatesConsidered |-> Len(sel.candidates),
   pool |-> sel.pool,
   draw |-> f,
   keyAtStart |-> currentKey,
   playedAtStart |-> playedIds,
   didReset |-> sel.didReset,
   scoredEmpty |-> Len(sel.scored) = 0]

\* mutant: isMagicNumber that ignores options.useMagicNumber
IsMagicNumber_Always(count) == count % MagicInterval = 0

\* isMagicNumber of the call that raised trackCount to count
IsMagicNumber(count) == options.useMagicNumber /\ count % MagicInterval = 0

\* selectTrack() from its entry to the point where it suspends: the count,
\* the candidate tiers (with their resets of the library) and the draw,
\* which getHexadecimal takes synchronously
StartSelect ==
  /\ trackCount < MaxTracks
  /\ Len(pending) < MaxPending
  /\ LET count == trackCount + 1
         isMagicNumber == IsMagicNumber(count)
         sel == IF isMagicNumber
                  THEN selectMagicNumber(allSongs, playedIds)
                  ELSE selectNormal(allSongs, playedIds, currentKey, options)
     IN /\ trackCount' = count
        /\ playedIds' = sel.played
        /\ returnedSinceReset' = IF sel.didReset THEN {} ELSE returnedSinceReset
        /\ \E f \in getFloat :
             pending' = Append(pending, CallRecord(count, isMagicNumber, sel, f))
  /\ UNCHANGED <<allSongs, keyVars, options, currentTempo, lastTrackType,
                 lastResult, rejected, timesReturned, ops>>
  /\ UNCHANGED <<qrngVars, probe, loaderVars, bufferVars>>

\* mutant: determineTrackType without its "after a lead, a body" branch
determineTrackType_NoBodyAfterLead(useBody) ==
  IF trackCount = 1 THEN "lead"
  ELSE IF useBody THEN "body" ELSE "lead"

\* determineTrackType: the type returned, given the coin Math.random() < 0.3
determineTrackType(useBody) ==
  IF trackCount = 1 THEN "lead"
  ELSE IF lastTrackType = "lead" THEN "body"
  ELSE IF useBody THEN "body" ELSE "lead"

\* the coin is tossed only on the third path of determineTrackType
Coins == IF trackCount # 1 /\ lastTrackType # "lead" THEN BOOLEAN ELSE {FALSE}

\* mutant: the key step taken on the first call too
keyAfterCall_AlwaysNext == nextKey(currentKey, direction)

\* the key after "if (this.trackCount > 1) this.keyManager.next()"
keyAfterCall ==
  IF trackCount > 1 THEN nextKey(currentKey, direction) ELSE currentKey

\* mutant: the score taken before the key step
selectionScore_BeforeStep(keyBefore, keyAfter, songKey) ==
  scoreCompatibility(keyBefore, songKey)

\* compatibilityScore: scoreFromCurrent(song.key), evaluated after the key
\* step, keyBefore and keyAfter being the current key before and after it
selectionScore(keyBefore, keyAfter, songKey) == scoreCompatibility(keyAfter, songKey)

RemoveAt(seq, i) == SubSeq(seq, 1, i - 1) \o SubSeq(seq, i + 1, Len(seq))

\* the continuation of the i-th suspended call when getChoice returns an
\* element: track type, markPlayed, key step, score, result
FinishSelect(i) ==
  /\ i \in 1..Len(pending)
  /\ LET call == pending[i] IN
     /\ ~getChoiceThrows(call.pool, call.draw)
     /\ \E useBody \in Coins :
          LET song == call.pool[getChoiceIndex(call.pool, call.draw)]
              trackType == determineTrackType(useBody)
              key2 == keyAfterCall
          IN /\ lastTrackType' = trackType
             /\ playedIds' = playedIds \cup {song}
             /\ currentKey' = key2
             /\ lastResult' =
                  [status |-> "ok", song |-> song, type |-> trackType,
                   tempo |-> currentTempo,
                   wasMagicNumber |-> call.isMagicNumber,
                   candidatesConsidered |-> call.candidatesConsidered,
                   compatibilityScore |-> selectionScore(currentKey, key2, allSongs[song])]
             /\ timesReturned' = [timesReturned EXCEPT ![song] = IF @ < TimesCap THEN @ + 1 ELSE @]
             /\ returnedSinceReset' = returnedSinceReset \cup {song}
     /\ rejected' = FALSE
     /\ pending' = RemoveAt(pending, i)
  /\ UNCHANGED <<allSongs, direction, options, currentTempo, trackCount, ops>>
  /\ UNCHANGED <<qrngVars, probe, loaderVars, bufferVars>>

\* the continuation of the i-th suspended call when getChoice throws
\* 'Failed to get choice': the rejection passes through selectNormal or
\* selectMagicNumber and selectTrack, which do nothing more
FailSelect(i) ==
  /\ i \in 1..Len(pending)
  /\ getChoiceThrows(pending[i].pool, pending[i].draw)
  /\ rejected' = TRUE
  /\ pending' = RemoveAt(pending, i)
  /\ UNCHANGED <<libraryVars, keyVars, options, currentTempo, trackCount,
                 lastTrackType, lastResult, timesReturned, returnedSinceReset, ops>>
  /\ UNCHANGED <<qrngVars, probe, loaderVars, bufferVars>>

----------------------------------------------------------------------------
(* The other operations of the selector and of the key manager *)

\* mutant: reset that leaves lastTrackType as it is
Reset_KeepsTrackType(resetLibrary, resetKeyManager) ==
  /\ ops < MaxOps
  /\ ops' = ops + 1
  /\ playedIds' = IF resetLibrary THEN {} ELSE playedIds
  /\ currentKey' = IF resetKeyManager THEN 1 ELSE currentKey
  /\ direction' = IF resetKeyManager THEN "forward" ELSE direction
  /\ trackCount' = 0
  /\ currentTempo' = options.defaultTempo
  /\ timesReturned' = [i \in AllIds |-> 0]
  /\ returnedSinceReset' = IF resetLibrary THEN {} ELSE returnedSinceReset
  /\ lastResult' = NoResult
  /\ rejected' = FALSE
  /\ UNCHANGED <<allSongs, options, pending, lastTrackType>>
  /\ UNCHANGED <<qrngVars, probe, loaderVars, bufferVars>>

\* SongSelector.reset(resetLibrary, resetKeyManager)
Reset(resetLibrary, resetKeyManager) ==
  /\ ops < MaxOps
  /\ ops' = ops + 1
  /\ playedIds' = IF resetLibrary THEN {} ELSE playedIds
  /\ currentKey' = IF resetKeyManager THEN 1 ELSE currentKey
  /\ direction' = IF resetKeyManager THEN "forward" ELSE direction
  /\ trackCount' = 0
  /\ lastTrackType' = "body"
  /\ currentTempo' = options.defaultTempo
  /\ timesReturned' = [i \in AllIds |-> 0]
  /\ returnedSinceReset' = IF resetLibrary THEN {} ELSE returnedSinceReset
  /\ lastResult' = NoResult
  /\ rejected' = FALSE
  /\ UNCHANGED <<allSongs, options, pending>>
  /\ UNCHANGED <<qrngVars, probe, loaderVars, bufferVars>>

\* SongSelector.setTempo(tempo)
SetTempo(tempo) ==
  /\ ops < MaxOps
  /\ ops' = ops + 1
  /\ currentTempo' = tempo
  /\ UNCHANGED <<libraryVars, keyVars, options, trackCount, lastTrackType,
                 pending, obsVars>>
  /\ UNCHANGED <<qrngVars, probe, engineVars, loaderVars, bufferVars>>

\* KeyManager.toggleDirection()
ToggleDirection ==
  /\ ops < MaxOps
  /\ ops' = ops + 1
  /\ direction' = IF direction = "forward" THEN "reverse" ELSE "forward"
  /\ UNCHANGED <<libraryVars, currentKey, options, currentTempo, trackCount,
                 lastTrackType, pending, obsVars>>
  /\ UNCHANGED <<qrngVars, probe, engineVars, loaderVars, bufferVars>>

\* SongLibrary.markPlayed(songId), for any number songId
MarkPlayed(songId) ==
  /\ ops < MaxOps
  /\ ops' = ops + 1
  /\ playedIds' = playedIds \cup {songId}
  /\ UNCHANGED <<allSongs, keyVars, options, currentTempo, trackCount,
                 lastTrackType, pending, obsVars>>
  /\ UNCHANGED <<qrngVars, probe, engineVars, loaderVars, bufferVars>>

\* SongLibrary.markManyPlayed(songIds), songIds given by the set of its
\* elements
MarkManyPlayed(songIds) ==
  /\ ops < MaxOps
  /\ ops' = ops + 1
  /\ playedIds' = playedIds \cup songIds
  /\ UNCHANGED <<allSongs, keyVars, options, currentTempo, trackCount,
                 lastTrackType, pending, obsVars>>
  /\ UNCHANGED <<qrngVars, probe, engineVars, loaderVars, bufferVars>>

\* SongLibrary.reset()
LibraryReset ==
  /\ ops < MaxOps
  /\ ops' = ops + 1
  /\ playedIds' = {}
  /\ returnedSinceReset' = {}
  /\ UNCHANGED <<allSongs, keyVars, options, currentTempo, trackCount,
                 lastTrackType, pending, lastResult, rejected, timesReturned>>
  /\ UNCHANGED <<qrngVars, probe, engineVars, loaderVars, bufferVars>>

----------------------------------------------------------------------------
(* Specifications *)

\* any use: calls may be started while earlier ones are still suspended,
\* and the suspended calls resume in any order
Next ==
  \/ trackCount < MaxRapid /\ StartSelect /\ UNCHANGED engineVars
  \/ \E i \in 1..MaxPending : FinishSelect(i) /\ UNCHANGED engineVars
  \/ \E i \in 1..MaxPending : FailSelect(i) /\ UNCHANGED engineVars
  \/ \E l, k \in BOOLEAN : ops < SerialOps /\ Reset(l, k) /\ UNCHANGED engineVars
  \/ \E t \in Tempos : ops < SerialOps /\ SetTempo(t)
  \/ ops < SerialOps /\ ToggleDirection

Spec == Init /\ [][Next]_vars

\* serialized use: the caller awaits each selectTrack() before its next
\* operation on the selector
Idle == pending = << >>

SerialNext ==
  \/ Idle /\ StartSelect /\ UNCHANGED engineVars
  \/ FinishSelect(1) /\ UNCHANGED engineVars
  \/ FailSelect(1) /\ UNCHANGED engineVars
  \/ \E l, k \in BOOLEAN : Idle /\ ops < SerialOps /\ Reset(l, k) /\ UNCHANGED engineVars
  \/ \E t \in Tempos : Idle /\ ops < SerialOps /\ SetTempo(t)
  \/ Idle /\ ops < SerialOps /\ ToggleDirection

SerialSpec == Init /\ [][SerialNext]_vars

\* serialized use of the selector together with direct use of its library:
\* short sessions, with up to MaxOps operations other than selectTrack()
LibraryNext ==
  \/ Idle /\ trackCount < MaxRapid /\ StartSelect /\ UNCHANGED engineVars
  \/ FinishSelect(1) /\ UNCHANGED engineVars
  \/ FailSelect(1) /\ UNCHANGED engineVars
  \/ \E l, k \in BOOLEAN : Idle /\ Reset(l, k) /\ UNCHANGED engineVars
  \/ \E t \in Tempos : Idle /\ SetTempo(t)
  \/ Idle /\ ToggleDirection
  \/ \E id \in SongIds : Idle /\ MarkPlayed(id)
  \/ \E ids \in SUBSET SongIds : Idle /\ MarkManyPlayed(ids)
  \/ Idle /\ LibraryReset

LibrarySpec == Init /\ [][LibraryNext]_vars

----------------------------------------------------------------------------
(* QuantumRandom: the digit cache, its storage item and its refills.  A    *)
(* digit is named by its origin: "s" read from storage at construction,    *)
(* "q" answered by the entropy service, "c" made by getCryptoHex.          *)

\* Array.prototype.slice(0, n) and slice(n) of a string, n >= 0
sliceFrom(seq, n) == SubSeq(seq, n + 1, Len(seq))

\* getCryptoHex(length): length fallback digits
getCryptoHex(length) == [i \in 1..length |-> "c"]

\* mutant: ensureCacheSize without the fallback
ensureCacheSize_NoFallback(c, needed) == c

\* the cache after ensureCacheSize(needed)
ensureCacheSize(c, needed) ==
  IF Len(c) >= needed THEN c ELSE c \o getCryptoHex(needed - Len(c))

\* the storage item after saveCacheToStorage(), the cache being c
saveCacheToStorage(c) ==
  IF qOptions.storage /\ Len(c) > 0 THEN <<c>> ELSE stored

\* the cache after loadCacheFromStorage(), item being the storage item
loadCacheFromStorage(opts, item) ==
  IF opts.storage /\ item # << >> /\ Len(item[1]) > 0
    THEN sliceTo(item[1], opts.cacheSize)
    ELSE << >>

\* mutant: a threshold test that also triggers at the threshold itself
belowThreshold_AtOrBelow(opts, c) ==
  Len(c) * opts.threshold.den <= opts.cacheSize * opts.threshold.num

\* cache.length < cacheSize * refillThreshold
belowThreshold(opts, c) ==
  Len(c) * opts.threshold.den < opts.cacheSize * opts.threshold.num

\* mutant: a trigger that does not look at isRefilling
refillStarts_Reentrant(opts, c, refilling) ==
  belowThreshold(opts, c) /\ opts.cacheSize - Len(c) > 0

\* refillIfNeeded() and the entry of refillCache(): a fetch is sent when the
\* cache is below the threshold, no refill is running and digits are needed
refillStarts(opts, c, refilling) ==
  belowThreshold(opts, c) /\ ~refilling /\ opts.cacheSize - Len(c) > 0

\* the fetches in flight after refillIfNeeded(), the cache being c
requestsAfterTrigger(opts, c, refilling, reqs) ==
  IF refillStarts(opts, c, refilling)
    THEN Append(reqs, opts.cacheSize - Len(c))
    ELSE reqs

\* isRefilling after refillIfNeeded(): refillCache sets it, and clears it
\* again at once when it returns without a fetch
refillingAfterTrigger(opts, c, refilling) ==
  refilling \/ refillStarts(opts, c, refilling)

\* the selector is not part of the random source's specification
SelectorUnused ==
  /\ allSongs = <<1>>
  /\ playedIds = {}
  /\ currentKey = 1
  /\ direction = "forward"
  /\ options = [candidatePoolSize |-> 5, useMagicNumber |-> TRUE,
                minCompatibilityScore |-> 5, defaultTempo |-> DefaultTempo]
  /\ currentTempo = DefaultTempo
  /\ trackCount = 0
  /\ lastTrackType = "body"
  /\ pending = << >>
  /\ lastResult = NoResult
  /\ rejected = FALSE
  /\ timesReturned = [i \in 1..1 |-> 0]
  /\ returnedSinceReset = {}
  /\ ops = 0

\* the 'qrng-cache' items an earlier session may have left in storage
StoredItems ==
  {<< >>} \cup {<<[i \in 1..n |-> "s"]>> : n \in 0..MaxStored}

\* new QuantumRandom(options): the cache is read from storage, then
\* refillIfNeeded() sends the first fetch
CacheInit ==
  /\ SelectorUnused
  /\ EngineUnused
  /\ LoaderUnused
  /\ BufferUnused
  /\ probe = NoProbe
  /\ qOptions \in [cacheSize : CacheSizes, threshold : Thresholds, storage : BOOLEAN]
  /\ stored \in (IF qOptions.storage THEN StoredItems ELSE {<< >>})
  /\ cache = loadCacheFromStorage(qOptions, stored)
  /\ isRefilling = refillingAfterTrigger(qOptions, cache, FALSE)
  /\ requests = requestsAfterTrigger(qOptions, cache, FALSE, << >>)
  /\ qResult = NoCall

\* what getHexadecimal(length), length > 0, does to the cache, the storage
\* item and the refill state
Consume(length) ==
  LET filled == ensureCacheSize(cache, length)
      rest == sliceFrom(filled, length)
  IN /\ cache' = rest
     /\ stored' = saveCacheToStorage(rest)
     /\ isRefilling' = refillingAfterTrigger(qOptions, rest, isRefilling)
     /\ requests' = requestsAfterTrigger(qOptions, rest, isRefilling, requests)

\* the digits getHexadecimal(length) returns
Drawn(length) == sliceTo(ensureCacheSize(cache, length), length)

\* getHexadecimal(length)
GetHexadecimal(length) ==
  /\ IF length <= 0
       THEN /\ qResult' = [op |-> "hexadecimal", args |-> <<length>>,
                           hex |-> << >>, error |-> "argument"]
            /\ UNCHANGED <<cache, stored, isRefilling, requests>>
       ELSE /\ qResult' = [op |-> "hexadecimal", args |-> <<length>>,
                           hex |-> Drawn(length), error |-> "none"]
            /\ Consume(length)
  /\ UNCHANGED <<selectorVars, engineVars, loaderVars, bufferVars, qOptions, probe>>

\* Number.isInteger(x) and x > y for numbers given as fractions
isInteger(x) == x.den = 1
greater(x, y) == x.num * y.den > y.num * x.den

\* mutant: getInteger that draws before it checks its arguments
GetInteger_DrawFirst(min, max) ==
  /\ qResult' = [op |-> "integer", args |-> <<min, max>>,
                 hex |-> Drawn(FloatDigits),
                 error |-> IF ~isInteger(min) \/ ~isInteger(max) \/ greater(min, max)
                             THEN "argument" ELSE "none"]
  /\ Consume(FloatDigits)
  /\ UNCHANGED <<selectorVars, engineVars, loaderVars, bufferVars, qOptions, probe>>

\* getInteger(min, max): the argument checks, then getFloat(), which takes
\* FloatDigits digits with getHexadecimal
GetInteger(min, max) ==
  /\ IF ~isInteger(min) \/ ~isInteger(max) \/ greater(min, max)
       THEN /\ qResult' = [op |-> "integer", args |-> <<min, max>>,
                           hex |-> << >>, error |-> "argument"]
            /\ UNCHANGED <<cache, stored, isRefilling, requests>>
       ELSE /\ qResult' = [op |-> "integer", args |-> <<min, max>>,
                           hex |-> Drawn(FloatDigits), error |-> "none"]
            /\ Consume(FloatDigits)
  /\ UNCHANGED <<selectorVars, engineVars, loaderVars, bufferVars, qOptions, probe>>

\* getChoice(array), for an array of n elements: the argument check, then
\* getInteger(0, n - 1); the draw may leave array[index] undefined
GetChoice(n) ==
  /\ IF n = 0
       THEN /\ qResult' = [op |-> "choice", args |-> <<n>>,
                           hex |-> << >>, error |-> "argument"]
            /\ UNCHANGED <<cache, stored, isRefilling, requests>>
       ELSE /\ \E f \in getFloat :
                 qResult' = [op |-> "choice", args |-> <<n>>,
                             hex |-> Drawn(FloatDigits),
                             error |-> IF getInteger(0, n - 1, f) > n - 1
                                         THEN "failed" ELSE "none"]
            /\ Consume(FloatDigits)
  /\ UNCHANGED <<selectorVars, engineVars, loaderVars, bufferVars, qOptions, probe>>

\* getUniqueChoices(array, count), for an array of n <= 1 elements: the
\* argument checks, then shuffle, whose loop takes no draw for such an array
GetUniqueChoices(n, count) ==
  /\ n <= 1
  /\ qResult' = [op |-> "uniqueChoices", args |-> <<n, count>>, hex |-> << >>,
                 error |-> IF count > n \/ count < 0 THEN "argument" ELSE "none"]
  /\ UNCHANGED <<cache, stored, isRefilling, requests>>
  /\ UNCHANGED <<selectorVars, engineVars, loaderVars, bufferVars, qOptions, probe>>

\* clearCache()
ClearCache ==
  /\ cache' = << >>
  /\ stored' = << >>
  /\ qResult' = [op |-> "clearCache", args |-> << >>, hex |-> << >>, error |-> "none"]
  /\ UNCHANGED <<isRefilling, requests>>
  /\ UNCHANGED <<selectorVars, engineVars, loaderVars, bufferVars, qOptions, probe>>

\* refillCache() resumes with an answer whose data is a string of n digits
RefillSucceeds(i, n) ==
  /\ i \in 1..Len(requests)
  /\ LET filled == cache \o [k \in 1..n |-> "q"]
     IN /\ cache' = filled
        /\ stored' = saveCacheToStorage(filled)
  /\ isRefilling' = FALSE
  /\ requests' = RemoveAt(requests, i)
  /\ UNCHANGED <<selectorVars, engineVars, loaderVars, bufferVars, qOptions, qResult, probe>>

\* refillCache() resumes with an answer whose data is not a string
RefillNoData(i) ==
  /\ i \in 1..Len(requests)
  /\ isRefilling' = FALSE
  /\ requests' = RemoveAt(requests, i)
  /\ UNCHANGED <<selectorVars, engineVars, loaderVars, bufferVars, qOptions, cache, stored, qResult, probe>>

\* mutant: a failed refill that does not save the cache
RefillFails_NoSave(i) ==
  /\ i \in 1..Len(requests)
  /\ cache' = cache \o getCryptoHex(qOptions.cacheSize - Len(cache))
  /\ isRefilling' = FALSE
  /\ requests' = RemoveAt(requests, i)
  /\ UNCHANGED <<selectorVars, engineVars, loaderVars, bufferVars, qOptions, stored, qResult, probe>>

\* mutant: a failed refill that leaves isRefilling set
RefillFails_KeepsFlag(i) ==
  /\ i \in 1..Len(requests)
  /\ LET filled == cache \o getCryptoHex(qOptions.cacheSize - Len(cache))
     IN /\ cache' = filled
        /\ stored' = saveCacheToStorage(filled)
  /\ requests' = RemoveAt(requests, i)
  /\ UNCHANGED <<selectorVars, engineVars, loaderVars, bufferVars, qOptions,
                 isRefilling, qResult, probe>>

\* refillCache() resumes in its catch block: the fetch was rejected or
\* aborted by the timeout, the status was not ok, or the body was no JSON
RefillFails(i) ==
  /\ i \in 1..Len(requests)
  /\ LET filled == cache \o getCryptoHex(qOptions.cacheSize - Len(cache))
     IN /\ cache' = filled
        /\ stored' = saveCacheToStorage(filled)
  /\ isRefilling' = FALSE
  /\ requests' = RemoveAt(requests, i)
  /\ UNCHANGED <<selectorVars, engineVars, loaderVars, bufferVars, qOptions, qResult, probe>>

\* the lengths of the string the service answers a request for needed
\* digits with: none, one, as many as asked for, or more
ReplyLengths(needed) == {0, 1, needed, needed + ReplyExtra}

CacheNext ==
  \/ \E length \in -1..MaxHex : GetHexadecimal(length)
  \/ \E min, max \in Numbers : GetInteger(min, max)
  \/ \E n \in 0..MaxArray : GetChoice(n)
  \/ \E n \in 0..1, count \in -1..2 : GetUniqueChoices(n, count)
  \/ ClearCache
  \/ \E i \in 1..Len(requests) :
       \E n \in ReplyLengths(requests[i]) : RefillSucceeds(i, n)
  \/ \E i \in 1..Len(requests) : RefillNoData(i)
  \/ \E i \in 1..Len(requests) : RefillFails(i)

CacheSpec == CacheInit /\ [][CacheNext]_vars

\* refillCache() resumes after its await: the service answers, the fetch
\* fails, or the timer set beside the fetch aborts it
RefillEnds ==
  \/ \E i \in 1..Len(requests) :
       \E n \in ReplyLengths(requests[i]) : RefillSucceeds(i, n)
  \/ \E i \in 1..Len(requests) : RefillNoData(i)
  \/ \E i \in 1..Len(requests) : RefillFails(i)

\* QuantumRandom with every fetch settling: the timeout bounds the wait
CacheFairSpec == CacheSpec /\ WF_vars(RefillEnds)

----------------------------------------------------------------------------
(* QuantumRandom: getInteger on the digits of its draw, in the arithmetic  *)
(* of Numbers (IEEE 754 doubles).  A non-negative integer is a sequence of *)
(* bits, most significant first; the hexadecimal digits are 0..15.         *)

\* the bits of a string of hexadecimal digits
hexBits(hex) ==
  [i \in 1..(4 * Len(hex)) |->
     (hex[((i - 1) \div 4) + 1] \div (2 ^ (3 - ((i - 1) % 4)))) % 2]

\* b without its leading zeros
stripZeros(b) ==
  LET ones == {i \in 1..Len(b) : b[i] = 1}
  IN IF ones = {} THEN << >>
     ELSE SubSeq(b, CHOOSE i \in ones : \A k \in ones : i <= k, Len(b))

zeros(n) == [i \in 1..n |-> 0]

\* b + 1: the lowest 0 bit becomes 1 and the bits below it 0
increment(b) ==
  LET holes == {i \in 1..Len(b) : b[i] = 0}
  IN IF holes = {} THEN <<1>> \o zeros(Len(b))
     ELSE LET h == CHOOSE i \in holes : \A k \in holes : i >= k
          IN [i \in 1..Len(b) |-> IF i < h THEN b[i] ELSE IF i = h THEN 1 ELSE 0]

\* the Number nearest to the integer b: MantissaBits significant bits,
\* rounded to nearest, ties to even
roundToNumber(b) ==
  LET s == stripZeros(b)
      dropped == Len(s) - MantissaBits
  IN IF dropped <= 0 THEN s
     ELSE LET keep == SubSeq(s, 1, MantissaBits)
              rest == SubSeq(s, MantissaBits + 1, Len(s))
              up == /\ rest[1] = 1
                    /\ \/ \E i \in 2..Len(rest) : rest[i] = 1
                       \/ keep[MantissaBits] = 1
          IN (IF up THEN increment(keep) ELSE keep) \o zeros(dropped)

\* the hexadecimal digits of the bits b
bitsToHex(b) ==
  LET p == zeros((4 - (Len(b) % 4)) % 4) \o b
  IN [i \in 1..(Len(p) \div 4) |->
        8 * p[4 * i - 3] + 4 * p[4 * i - 2] + 2 * p[4 * i - 1] + p[4 * i]]

\* the hexadecimal digits of a small integer n >= 0
RECURSIVE digitsOf(_)
digitsOf(n) == IF n = 0 THEN << >> ELSE Append(digitsOf(n \div 16), n % 16)

\* the small integer of the bits b
RECURSIVE valueOf(_)
valueOf(b) ==
  IF b = << >> THEN 0 ELSE 2 * valueOf(SubSeq(b, 1, Len(b) - 1)) + b[Len(b)]

\* the digits of hex * m + carry, for small integers m, carry >= 0
RECURSIVE timesPlus(_, _, _)
timesPlus(hex, m, carry) ==
  IF hex = << >> THEN digitsOf(carry)
  ELSE LET v == hex[Len(hex)] * m + carry
       IN Append(timesPlus(SubSeq(hex, 1, Len(hex) - 1), m, v \div 16), v % 16)

\* parseInt(hex, 16): the Number nearest to the integer the digits spell
parseInt(hex) == roundToNumber(hexBits(hex))

\* getInteger(min, max) on the draw hex: getFloat() is parseInt(hex, 16) /
\* 16^16, exact for a power of two; randomFloat * range is the product
\* rounded to a Number; Math.floor drops what is below 16^16
getIntegerOf(min, max, hex) ==
  LET range == max - min + 1
      product == roundToNumber(hexBits(timesPlus(bitsToHex(parseInt(hex)), range, 0)))
      whole == SubSeq(product, 1, Len(product) - 4 * FloatDigits)
  IN valueOf(whole) + min

\* shuffle: result[i] and result[j] swapped, for 1-based i and j; result[j]
\* past the end reads undefined, and writing it lengthens the array
Undefined == 0

swap(result, i, j) ==
  IF j <= Len(result)
    THEN [result EXCEPT ![i] = result[j], ![j] = result[i]]
    ELSE Append([result EXCEPT ![i] = Undefined], result[i])

\* the loop of shuffle from (1-based) position i down, draws[i] being the
\* draw of that iteration
RECURSIVE shuffleFrom(_, _, _)
shuffleFrom(result, i, draws) ==
  IF i <= 1 THEN result
  ELSE shuffleFrom(swap(result, i, getInteger(0, i - 1, draws[i]) + 1), i - 1, draws)

\* shuffle(array) for the draws given
shuffle(array, draws) == shuffleFrom(array, Len(array), draws)

Draws ==
  {<<t>> \o [i \in 1..12 |-> m] \o l :
     t \in TopDigits, m \in MidDigits, l \in [1..3 -> LastDigits]}

\* getInteger(min, max) is about to be applied to a draw
IntegerInit ==
  /\ SelectorUnused
  /\ EngineUnused
  /\ LoaderUnused
  /\ BufferUnused
  /\ qOptions = [cacheSize |-> 0, threshold |-> [num |-> 0, den |-> 1],
                 storage |-> FALSE]
  /\ cache = << >>
  /\ stored = << >>
  /\ isRefilling = FALSE
  /\ requests = << >>
  /\ qResult = NoCall
  /\ \E min \in Mins, span \in Spans, hex \in Draws :
       probe = [fn |-> "none", in |-> <<min, min + span, hex>>, out |-> << >>]

ApplyGetInteger ==
  /\ probe.fn = "none"
  /\ probe' = [probe EXCEPT !.fn = "getInteger",
                            !.out = <<getIntegerOf(probe.in[1], probe.in[2], probe.in[3])>>]
  /\ UNCHANGED <<selectorVars, qrngVars, engineVars, loaderVars, bufferVars>>

IntegerSpec == IntegerInit /\ [][ApplyGetInteger]_vars

\* shuffle(array) is about to be applied, with the draws of its loop
ShuffleInit ==
  /\ SelectorUnused
  /\ EngineUnused
  /\ LoaderUnused
  /\ BufferUnused
  /\ qOptions = [cacheSize |-> 0, threshold |-> [num |-> 0, den |-> 1],
                 storage |-> FALSE]
  /\ cache = << >>
  /\ stored = << >>
  /\ isRefilling = FALSE
  /\ requests = << >>
  /\ qResult = NoCall
  /\ \E n \in 0..MaxShuffle :
       \E array \in [1..n -> Elements], draws \in [1..n -> getFloat] :
         probe = [fn |-> "none", in |-> <<array, draws>>, out |-> << >>]

ApplyShuffle ==
  /\ probe.fn = "none"
  /\ probe' = [probe EXCEPT !.fn = "shuffle",
                            !.out = shuffle(probe.in[1], probe.in[2])]
  /\ UNCHANGED <<selectorVars, qrngVars, engineVars, loaderVars, bufferVars>>

ShuffleSpec == ShuffleInit /\ [][ApplyShuffle]_vars

----------------------------------------------------------------------------
(* SongLibrary: construction.  Here a song is the record of its fields.    *)

\* validateSongs: the loop from the i-th song on, the error it throws
\* ("none" when it throws none)
RECURSIVE validateSongs(_, _, _)
validateSongs(songs, i, seenIds) ==
  IF i > Len(songs) THEN "none"
  ELSE LET song == songs[i]
       IN IF song.id < 1 THEN "Invalid song ID"
          ELSE IF song.id \in seenIds THEN "Duplicate song ID"
          ELSE IF song.artist = "" THEN "invalid artist"
          ELSE IF song.title = "" THEN "invalid title"
          ELSE IF song.key \notin Keys THEN "invalid key"
          ELSE IF song.bpm \notin Tempos THEN "invalid BPM"
          ELSE validateSongs(songs, i + 1, seenIds \cup {song.id})

\* mutant: a constructor that takes the empty list
newSongLibrary_AllowsEmpty(songs) ==
  LET error == validateSongs(songs, 1, {})
  IN [error |-> error, library |-> IF error = "none" THEN <<songs>> ELSE << >>]

\* new SongLibrary(songs): the error thrown, and the library constructed
\* (its allSongs), << >> when the constructor throws
newSongLibrary(songs) ==
  LET error == IF Len(songs) = 0 THEN "Songs array must be non-empty"
               ELSE validateSongs(songs, 1, {})
  IN [error |-> error, library |-> IF error = "none" THEN <<songs>> ELSE << >>]

InputSongs ==
  [id : InputIds, artist : InputNames, title : InputNames,
   key : InputKeys, bpm : InputTempos]

\* the random source is not part of this specification
CacheUnused ==
  /\ qOptions = [cacheSize |-> 0, threshold |-> [num |-> 0, den |-> 1],
                 storage |-> FALSE]
  /\ cache = << >>
  /\ stored = << >>
  /\ isRefilling = FALSE
  /\ requests = << >>
  /\ qResult = NoCall

\* new SongLibrary(songs) is about to be called
LibraryInit ==
  /\ SelectorUnused
  /\ EngineUnused
  /\ LoaderUnused
  /\ BufferUnused
  /\ CacheUnused
  /\ \E n \in 0..MaxList : \E songs \in [1..n -> InputSongs] :
       probe = [fn |-> "none", in |-> <<songs>>, out |-> << >>]

ApplyNewSongLibrary ==
  /\ probe.fn = "none"
  /\ probe' = [probe EXCEPT !.fn = "SongLibrary",
                            !.out = <<newSongLibrary(probe.in[1])>>]
  /\ UNCHANGED <<selectorVars, qrngVars, engineVars, loaderVars, bufferVars>>

ConstructSpec == LibraryInit /\ [][ApplyNewSongLibrary]_vars

----------------------------------------------------------------------------
(* KeyManager: next() and getDistance() *)

\* mutant: a distance that is always taken in the current direction
getDistance_IgnoresArgument(fromKey, toKey, dirArg) ==
  IF fromKey = toKey THEN 0
  ELSE IF direction = "forward"
    THEN (IF toKey > fromKey THEN toKey - fromKey ELSE 12 - fromKey + toKey)
    ELSE (IF fromKey > toKey THEN fromKey - toKey ELSE 12 - toKey + fromKey)

\* KeyManager.getDistance(fromKey, toKey, direction), direction being
\* "undefined" when the argument is left out
getDistance(fromKey, toKey, dirArg) ==
  LET dir == IF dirArg = "undefined" THEN direction ELSE dirArg
  IN IF fromKey = toKey THEN 0
     ELSE IF dir = "forward"
       THEN (IF toKey > fromKey THEN toKey - fromKey ELSE 12 - fromKey + toKey)
       ELSE (IF fromKey > toKey THEN fromKey - toKey ELSE 12 - toKey + fromKey)

\* the rest of the selector while the key manager is used on its own
KeyManagerOnly ==
  /\ allSongs = <<1>>
  /\ playedIds = {}
  /\ options = [candidatePoolSize |-> 5, useMagicNumber |-> TRUE,
                minCompatibilityScore |-> 5, defaultTempo |-> DefaultTempo]
  /\ currentTempo = DefaultTempo
  /\ trackCount = 0
  /\ lastTrackType = "body"
  /\ pending = << >>
  /\ lastResult = NoResult
  /\ rejected = FALSE
  /\ timesReturned = [i \in 1..1 |-> 0]
  /\ returnedSinceReset = {}
  /\ ops = 0

\* new KeyManager(startKey, direction); probe records the keys next()
\* returns
KeyInit ==
  /\ KeyManagerOnly
  /\ EngineUnused
  /\ LoaderUnused
  /\ BufferUnused
  /\ CacheUnused
  /\ currentKey \in Keys
  /\ direction \in {"forward", "reverse"}
  /\ probe = [fn |-> "next", in |-> <<currentKey, direction>>, out |-> << >>]

\* mutant: next() that wraps round one key late
KeyNext_WrapLate ==
  /\ Len(probe.out) < MaxSteps
  /\ currentKey' = IF direction = "forward"
                     THEN (IF currentKey = 12 THEN 2 ELSE currentKey + 1)
                     ELSE (IF currentKey = 1 THEN 12 ELSE currentKey - 1)
  /\ probe' = [probe EXCEPT !.out = Append(@, currentKey')]
  /\ UNCHANGED <<libraryVars, direction, options, currentTempo, trackCount,
                 lastTrackType, pending, obsVars, ops, qrngVars,
                 engineVars, loaderVars, bufferVars>>

\* KeyManager.next()
KeyNext ==
  /\ Len(probe.out) < MaxSteps
  /\ currentKey' = nextKey(currentKey, direction)
  /\ probe' = [probe EXCEPT !.out = Append(@, currentKey')]
  /\ UNCHANGED <<libraryVars, direction, options, currentTempo, trackCount,
                 lastTrackType, pending, obsVars, ops, qrngVars,
                 engineVars, loaderVars, bufferVars>>

KeySpec == KeyInit /\ [][KeyNext]_vars

\* getDistance(fromKey, toKey, direction?) is about to be called
DistanceInit ==
  /\ KeyManagerOnly
  /\ EngineUnused
  /\ LoaderUnused
  /\ BufferUnused
  /\ CacheUnused
  /\ currentKey \in {1, 7}
  /\ direction \in {"forward", "reverse"}
  /\ \E fromKey, toKey \in Keys, dirArg \in {"forward", "reverse", "undefined"} :
       probe = [fn |-> "none", in |-> <<fromKey, toKey, dirArg>>, out |-> << >>]

ApplyGetDistance ==
  /\ probe.fn = "none"
  /\ probe' = [probe EXCEPT !.fn = "getDistance",
                            !.out = <<getDistance(probe.in[1], probe.in[2], probe.in[3])>>]
  /\ UNCHANGED <<selectorVars, qrngVars, engineVars, loaderVars, bufferVars>>

DistanceSpec == DistanceInit /\ [][ApplyGetDistance]_vars

\* scoreCompatibility(fromKey, toKey) is about to be called
ScoreInit ==
  /\ SelectorUnused
  /\ EngineUnused
  /\ LoaderUnused
  /\ BufferUnused
  /\ CacheUnused
  /\ \E fromKey, toKey \in Keys :
       probe = [fn |-> "none", in |-> <<fromKey, toKey>>, out |-> << >>]

ApplyScoreCompatibility ==
  /\ probe.fn = "none"
  /\ probe' = [probe EXCEPT !.fn = "scoreCompatibility",
                            !.out = <<scoreCompatibility(probe.in[1], probe.in[2])>>]
  /\ UNCHANGED <<selectorVars, qrngVars, engineVars, loaderVars, bufferVars>>

ScoreSpec == ScoreInit /\ [][ApplyScoreCompatibility]_vars

----------------------------------------------------------------------------
(* KwyjiboEngine.  The engine reaches the selector only through
   selectTrack() (StartSelect and its continuations) and reset(); every
   suspended selectTrack() call belongs to a next() of the engine, called
   directly or by start(). *)

\* what a call of the engine did: the error it threw, if any, and the
\* stateChange events it emitted
EngineCall(op, error) == [op |-> op, error |-> error, events |-> << >>]

\* setState(newState): the stateChange events it emits, none when the state
\* is newState already
setState(newState) ==
  IF state = newState
    THEN << >>
    ELSE <<[state |-> newState, previousState |-> state]>>

\* a call that did not throw, having emitted events
EngineDone(op, events) == [op |-> op, error |-> "none", events |-> events]

\* the frame of an engine call that throws before it reaches the selector
EngineOnly == UNCHANGED <<selectorVars, qrngVars, probe, loaderVars, bufferVars>>

\* new KwyjiboEngine({songs, audioLoader}): the selector with its default
\* options, start key 1, direction forward
EngineInit ==
  /\ QrngUnused
  /\ LoaderUnused
  /\ BufferUnused
  /\ allSongs \in UNION {[1..n -> SongKeys] : n \in 1..MaxSongs}
  /\ playedIds = {}
  /\ currentKey = 1
  /\ direction = "forward"
  /\ options = [candidatePoolSize |-> 5, useMagicNumber |-> TRUE,
                minCompatibilityScore |-> 5, defaultTempo |-> DefaultTempo]
  /\ currentTempo = options.defaultTempo
  /\ trackCount = 0
  /\ lastTrackType = "body"
  /\ pending = << >>
  /\ lastResult = NoResult
  /\ rejected = FALSE
  /\ timesReturned = [i \in 1..Len(allSongs) |-> 0]
  /\ returnedSinceReset = {}
  /\ ops = 0
  /\ state = "idle"
  /\ currentTrack = Null
  /\ engineResult = NoEngineCall

\* next() up to the point where it awaits the selection
nextStarts(op) ==
  IF state # "running"
    THEN /\ engineResult' = EngineCall(op, "Cannot select next track in state")
         /\ UNCHANGED <<state, currentTrack>>
         /\ EngineOnly
    ELSE /\ trackCount < MaxRapid
         /\ StartSelect
         /\ engineResult' = EngineCall(op, "none")
         /\ UNCHANGED <<state, currentTrack>>

\* start(): the state check, setState('running') and the call of next(),
\* which finds the state running
EngineStart ==
  IF state # "idle" /\ state # "stopped"
    THEN /\ engineResult' = EngineCall("start", "Cannot start from state")
         /\ UNCHANGED <<state, currentTrack>>
         /\ EngineOnly
    ELSE /\ trackCount < MaxRapid
         /\ StartSelect
         /\ state' = "running"
         /\ engineResult' = EngineDone("start", setState("running"))
         /\ UNCHANGED currentTrack

\* next()
EngineNext == nextStarts("next")

\* next() after its await, the selection made: this.currentTrack =
\* selection.track
EngineSelected(i) ==
  /\ FinishSelect(i)
  /\ currentTrack' = <<[song |-> lastResult'.song, type |-> lastResult'.type,
                        tempo |-> lastResult'.tempo]>>
  /\ UNCHANGED <<state, engineResult>>

\* next() after its await, the selection rejected: the error is emitted
\* and thrown on
EngineSelectFails(i) ==
  /\ FailSelect(i)
  /\ UNCHANGED engineVars

\* mutant: pause() without its state check
EnginePause_FromAny ==
  /\ state' = "paused"
  /\ engineResult' = EngineDone("pause", setState("paused"))
  /\ UNCHANGED currentTrack
  /\ EngineOnly

\* pause()
EnginePause ==
  /\ IF state # "running"
       THEN /\ engineResult' = EngineCall("pause", "Cannot pause from state")
            /\ UNCHANGED state
       ELSE /\ state' = "paused"
            /\ engineResult' = EngineDone("pause", setState("paused"))
  /\ UNCHANGED currentTrack
  /\ EngineOnly

\* resume()
EngineResume ==
  /\ IF state # "paused"
       THEN /\ engineResult' = EngineCall("resume", "Cannot resume from state")
            /\ UNCHANGED state
       ELSE /\ state' = "running"
            /\ engineResult' = EngineDone("resume", setState("running"))
  /\ UNCHANGED currentTrack
  /\ EngineOnly

\* stop()
EngineStop ==
  /\ state' = "stopped"
  /\ currentTrack' = Null
  /\ engineResult' = EngineDone("stop", setState("stopped"))
  /\ EngineOnly

\* reset(resetLibrary, resetKeyManager): the state is assigned, not set
\* with setState
EngineReset(resetLibrary, resetKeyManager) ==
  /\ ops < SerialOps
  /\ Reset(resetLibrary, resetKeyManager)
  /\ state' = "idle"
  /\ currentTrack' = Null
  /\ engineResult' = EngineCall("reset", "none")

EngineNextStep ==
  \/ EngineStart
  \/ EngineNext
  \/ \E i \in 1..MaxPending : EngineSelected(i)
  \/ \E i \in 1..MaxPending : EngineSelectFails(i)
  \/ EnginePause
  \/ EngineResume
  \/ EngineStop
  \/ \E l, k \in BOOLEAN : EngineReset(l, k)

EngineSpec == EngineInit /\ [][EngineNextStep]_vars

----------------------------------------------------------------------------
(* AudioBufferLoader.  A step is what runs between two awaits: load() up
   to the await in processQueue, the settling of one fetch-and-decode, the
   end of one retry delay, the resumption of processQueue (with the rest of
   load() when the loop ends), and cancel(). *)

\* Math.round(part / total * 100)
percentageOf(part, total) == (200 * part + total) \div (2 * total)

\* a request that loadOne() has not been called for
Queued == [phase |-> "queued", fetches |-> 0, failures |-> 0, reports |-> 0,
           reportedAttempts |-> 0]

\* the requests of a load whose loadOne() has been called and has not
\* returned: processQueue's inProgress
inProgress(load) ==
  {r \in 1..load.total : load.req[r].phase \in {"fetching", "sleeping"}}

\* emitProgress(progress), and whether the event comes after the load's
\* 'cancelled' event
emitProgress(load) ==
  [load EXCEPT !.lastProgress = <<load.progress>>,
               !.late = @ \/ "cancelled" \in load.emitted]

\* mutant: the inner loop of processQueue without its limit
fill_Unlimited(load) ==
  LET k == load.total - load.next + 1
  IN emitProgress(
       [load EXCEPT !.req = [r \in 1..load.total |->
                               IF r \in load.next..(load.next + k - 1)
                                 THEN [Queued EXCEPT !.phase = "fetching", !.fetches = 1]
                                 ELSE load.req[r]],
                    !.next = load.next + k])

\* the inner loop of processQueue, run with the flag clear: loadOne() is
\* called for queued requests while fewer than maxConcurrent are in
\* progress; each call emits progress and starts its first fetch
fill(load) ==
  LET room == loaderOptions.maxConcurrent - Cardinality(inProgress(load))
      left == load.total - load.next + 1
      k == IF room < 0 THEN 0 ELSE IF room < left THEN room ELSE left
  IN IF k = 0 THEN load
     ELSE emitProgress(
            [load EXCEPT !.req = [r \in 1..load.total |->
                                    IF r \in load.next..(load.next + k - 1)
                                      THEN [Queued EXCEPT !.phase = "fetching", !.fetches = 1]
                                      ELSE load.req[r]],
                         !.next = load.next + k])

\* the event loop is held by a load() that never reaches an await
Spinning == \E l \in 1..Len(loads) : loads[l].status = "spinning"

\* new AudioBufferLoader(fileLoader, decoder, options)
LoaderInit ==
  /\ SelectorUnused
  /\ EngineUnused
  /\ QrngUnused
  /\ BufferUnused
  /\ loaderOptions \in [maxConcurrent : MaxConcurrents, defaultRetries : Retries]
  /\ cancelled = FALSE
  /\ loads = << >>

LoaderOnly ==
  UNCHANGED <<selectorVars, qrngVars, probe, engineVars, loaderOptions, bufferVars>>

\* load(requests) with n requests, up to the await in processQueue (or to
\* its return for the empty list)
Load(n) ==
  /\ ~Spinning
  /\ Len(loads) < MaxLoads
  /\ cancelled' = FALSE
  /\ LET new == [total |-> n, next |-> 1, req |-> [r \in 1..n |-> Queued],
                 raceDone |-> FALSE,
                 progress |-> [loaded |-> 0, failed |-> 0, percentage |-> 0],
                 lastProgress |-> << >>,
                 status |-> "running", emitted |-> {}, late |-> FALSE,
                 cancelRequested |-> FALSE]
         initial == [new EXCEPT !.lastProgress = <<new.progress>>]
     IN loads' = Append(loads,
          IF n = 0 THEN [new EXCEPT !.status = "resolved"]
          ELSE IF loaderOptions.maxConcurrent <= 0
            THEN [initial EXCEPT !.status = "spinning"]
            ELSE fill(initial))
  /\ LoaderOnly

\* cancel()
Cancel ==
  /\ ~Spinning
  /\ cancelled' = TRUE
  /\ loads' = [l \in 1..Len(loads) |->
                 IF loads[l].status = "running"
                   THEN [loads[l] EXCEPT !.cancelRequested = TRUE]
                   ELSE loads[l]]
  /\ LoaderOnly

\* loadOne(): fetch and decode of request r of load l succeed
FetchSucceeds(l, r) ==
  /\ ~Spinning
  /\ l \in 1..Len(loads)
  /\ r \in 1..loads[l].total
  /\ loads[l].req[r].phase = "fetching"
  /\ LET load == loads[l]
         loaded == load.progress.loaded + 1
         counted == [load EXCEPT
                       !.req[r].phase = "loaded",
                       !.progress.loaded = loaded,
                       !.progress.percentage = percentageOf(loaded, load.total),
                       !.late = @ \/ "cancelled" \in load.emitted,
                       !.raceDone = TRUE]
     IN loads' = [loads EXCEPT ![l] = emitProgress(counted)]
  /\ UNCHANGED cancelled
  /\ LoaderOnly

\* mutant: a loadOne() that gives up after its first failure
FetchFails_NoRetry(l, r) ==
  /\ ~Spinning
  /\ l \in 1..Len(loads)
  /\ r \in 1..loads[l].total
  /\ loads[l].req[r].phase = "fetching"
  /\ LET load == loads[l]
         failed == load.progress.failed + 1
         counted == [load EXCEPT
                       !.req[r].phase = "failed",
                       !.req[r].failures = @ + 1,
                       !.req[r].reports = @ + 1,
                       !.req[r].reportedAttempts = loaderOptions.defaultRetries + 1,
                       !.progress.failed = failed,
                       !.progress.percentage =
                          percentageOf(load.progress.loaded + failed, load.total),
                       !.late = @ \/ "cancelled" \in load.emitted,
                       !.raceDone = TRUE]
     IN loads' = [loads EXCEPT ![l] = emitProgress(counted)]
  /\ UNCHANGED cancelled
  /\ LoaderOnly

\* loadOne(): fetch or decode of request r of load l fails; the request
\* sleeps before its next attempt, or is reported as failed after its last
FetchFails(l, r) ==
  /\ ~Spinning
  /\ l \in 1..Len(loads)
  /\ r \in 1..loads[l].total
  /\ loads[l].req[r].phase = "fetching"
  /\ LET load == loads[l]
         attempt == load.req[r].fetches - 1
         failed == load.progress.failed + 1
         counted == [load EXCEPT
                       !.req[r].phase = "failed",
                       !.req[r].failures = @ + 1,
                       !.req[r].reports = @ + 1,
                       !.req[r].reportedAttempts = loaderOptions.defaultRetries + 1,
                       !.progress.failed = failed,
                       !.progress.percentage =
                          percentageOf(load.progress.loaded + failed, load.total),
                       !.late = @ \/ "cancelled" \in load.emitted,
                       !.raceDone = TRUE]
     IN loads' = [loads EXCEPT ![l] =
          IF attempt < loaderOptions.defaultRetries
            THEN [load EXCEPT !.req[r].phase = "sleeping", !.req[r].failures = @ + 1]
            ELSE emitProgress(counted)]
  /\ UNCHANGED cancelled
  /\ LoaderOnly

\* loadOne(): the retry delay of request r of load l ends; the next round
\* of the loop returns if the flag is set and fetches again if not
SleepEnds(l, r) ==
  /\ ~Spinning
  /\ l \in 1..Len(loads)
  /\ r \in 1..loads[l].total
  /\ loads[l].req[r].phase = "sleeping"
  /\ loads' = [loads EXCEPT ![l] =
       IF cancelled
         THEN [@ EXCEPT !.req[r].phase = "returned", !.raceDone = TRUE]
         ELSE [@ EXCEPT !.req[r].phase = "fetching", !.req[r].fetches = @ + 1]]
  /\ UNCHANGED cancelled
  /\ LoaderOnly

\* load() after processQueue has returned
finishLoad(load) ==
  IF cancelled
    THEN [load EXCEPT !.emitted = @ \cup {"cancelled"}, !.status = "CancelledError"]
    ELSE [load EXCEPT !.emitted = @ \cup {"complete"},
                      !.status = IF load.progress.loaded = 0 /\ load.progress.failed > 0
                                   THEN "LoadError" ELSE "resolved"]

\* processQueue after its await: the loop's test, the flag's check, the
\* inner loop, and the next await or the return into load()
resumeQueue(load) ==
  IF load.next > load.total /\ inProgress(load) = {} THEN finishLoad(load)
  ELSE IF cancelled THEN finishLoad(load)
  ELSE [fill(load) EXCEPT !.raceDone = FALSE]

\* the await in processQueue of load l returns: one of its loadOne() calls
\* has returned
ProcessQueueResumes(l) ==
  /\ ~Spinning
  /\ l \in 1..Len(loads)
  /\ loads[l].status = "running"
  /\ loads[l].raceDone
  /\ loads' = [loads EXCEPT ![l] = resumeQueue(loads[l])]
  /\ UNCHANGED cancelled
  /\ LoaderOnly

LoaderNext ==
  \/ \E n \in 0..MaxRequests : Load(n)
  \/ Cancel
  \/ \E l \in 1..MaxLoads, r \in 1..MaxRequests : FetchSucceeds(l, r)
  \/ \E l \in 1..MaxLoads, r \in 1..MaxRequests : FetchFails(l, r)
  \/ \E l \in 1..MaxLoads, r \in 1..MaxRequests : SleepEnds(l, r)
  \/ \E l \in 1..MaxLoads : ProcessQueueResumes(l)

LoaderSpec == LoaderInit /\ [][LoaderNext]_vars

\* the loader with every fetch-and-decode settling, every retry delay
\* ending and every resolved await of processQueue resuming
LoaderFairSpec ==
  /\ LoaderSpec
  /\ \A l \in 1..MaxLoads, r \in 1..MaxRequests :
       /\ WF_vars(FetchSucceeds(l, r) \/ FetchFails(l, r))
       /\ WF_vars(SleepEnds(l, r))
  /\ \A l \in 1..MaxLoads : WF_vars(ProcessQueueResumes(l))

----------------------------------------------------------------------------
(* AudioBufferCache.  The Map is the sequence of its entries in insertion
   order; Date.now() is a clock that no operation sees go back and that
   two operations may read as the same millisecond. *)

\* the position of id in the Map, 0 when it has none
indexOf(entries, id) ==
  IF \E i \in 1..Len(entries) : entries[i].id = id
    THEN CHOOSE i \in 1..Len(entries) : entries[i].id = id
    ELSE 0

\* a sequence of ids without id
without(ids, id) == SelectSeq(ids, LAMBDA x : x # id)

\* delete(id) on the Map and the memory count
deleteEntry(b, id) ==
  LET i == indexOf(b.entries, id)
  IN IF i = 0 THEN b
     ELSE [b EXCEPT !.currentMemoryBytes = @ - b.entries[i].sizeBytes,
                    !.entries = RemoveAt(@, i),
                    !.recency = without(@, id)]

\* evictOldest: the first entry, in the Map's order, that no entry is
\* older than by lastAccessed; the observation records it with the entry
\* accessed least recently
evictOldest(b) ==
  IF Len(b.entries) = 0 THEN b
  ELSE LET oldest == CHOOSE i \in 1..Len(b.entries) :
                       /\ \A j \in 1..Len(b.entries) :
                            b.entries[j].lastAccessed >= b.entries[i].lastAccessed
                       /\ \A j \in 1..(i - 1) :
                            b.entries[j].lastAccessed > b.entries[i].lastAccessed
           seen == [b EXCEPT !.evicted =
                      Append(@, [id |-> b.entries[oldest].id, lru |-> Head(b.recency)])]
       IN deleteEntry(seen, b.entries[oldest].id)

\* the second loop of evictIfNeeded
RECURSIVE evictByMemory(_)
evictByMemory(b) ==
  IF b.currentMemoryBytes > b.maxMemoryBytes /\ Len(b.entries) > 0
    THEN evictByMemory(evictOldest(b))
    ELSE b

\* the first loop of evictIfNeeded
RECURSIVE evictByCount(_)
evictByCount(b) ==
  IF Len(b.entries) > b.maxSize THEN evictByCount(evictOldest(b)) ELSE b

\* mutant: evictIfNeeded without its loop on the memory
evictIfNeeded_CountOnly(b) == evictByCount(b)

\* evictIfNeeded
evictIfNeeded(b) == evictByMemory(evictByCount(b))

\* the values Date.now() may return to the next operation
Clock == {t \in buffers.now..(buffers.now + 1) : t <= MaxClock}

\* new AudioBufferCache({maxSize, maxMemoryBytes})
BufferInit ==
  /\ SelectorUnused
  /\ EngineUnused
  /\ LoaderUnused
  /\ QrngUnused
  /\ \E maxSize \in MaxSizes, maxMemoryBytes \in MaxMemories :
       buffers = [maxSize |-> maxSize, maxMemoryBytes |-> maxMemoryBytes,
                  entries |-> << >>, currentMemoryBytes |-> 0, now |-> 0,
                  recency |-> << >>, evicted |-> << >>,
                  last |-> [op |-> "none", id |-> "", sizeBytes |-> 0]]

BufferOnly == UNCHANGED <<selectorVars, qrngVars, probe, engineVars, loaderVars>>

\* set(id, result) at the time t, the buffer of result being of sizeBytes
BufferSet(id, sizeBytes, t) ==
  /\ t \in Clock
  /\ LET i == indexOf(buffers.entries, id)
         entry == [id |-> id, lastAccessed |-> t, sizeBytes |-> sizeBytes]
         added == [buffers EXCEPT
                      !.currentMemoryBytes =
                         (IF i = 0 THEN @ ELSE @ - buffers.entries[i].sizeBytes) + sizeBytes,
                      !.entries = IF i = 0 THEN Append(@, entry)
                                  ELSE [@ EXCEPT ![i] = entry],
                      !.now = t,
                      !.recency = Append(without(@, id), id),
                      !.evicted = << >>,
                      !.last = [op |-> "set", id |-> id, sizeBytes |-> sizeBytes]]
     IN buffers' = evictIfNeeded(added)
  /\ BufferOnly

\* get(id) at the time t
BufferGet(id, t) ==
  /\ t \in Clock
  /\ LET i == indexOf(buffers.entries, id)
     IN buffers' =
          IF i = 0
            THEN [buffers EXCEPT !.last = [op |-> "get", id |-> id, sizeBytes |-> 0]]
            ELSE [buffers EXCEPT
                    !.entries[i].lastAccessed = t,
                    !.now = t,
                    !.recency = Append(without(@, id), id),
                    !.last = [op |-> "get", id |-> id,
                              sizeBytes |-> buffers.entries[i].sizeBytes]]
  /\ BufferOnly

\* delete(id)
BufferDelete(id) ==
  /\ buffers' = [deleteEntry(buffers, id) EXCEPT
                   !.last = [op |-> "delete", id |-> id, sizeBytes |-> 0]]
  /\ BufferOnly

\* clear()
BufferClear ==
  /\ buffers' = [buffers EXCEPT
                   !.entries = << >>, !.currentMemoryBytes = 0, !.recency = << >>,
                   !.last = [op |-> "clear", id |-> "", sizeBytes |-> 0]]
  /\ BufferOnly

BufferNext ==
  \/ \E id \in BufferIds, sizeBytes \in BufferSizes, t \in 0..MaxClock :
       BufferSet(id, sizeBytes, t)
  \/ \E id \in BufferIds, t \in 0..MaxClock : BufferGet(id, t)
  \/ \E id \in BufferIds : BufferDelete(id)
  \/ BufferClear

BufferSpec == BufferInit /\ [][BufferNext]_vars

----------------------------------------------------------------------------
(* Properties of selectTrack() in serialized use.  In SerialSpec at most   *)
(* one call is suspended, so a step that empties pending settles the call  *)
(* pending[1].                                                             *)

\* the suspended call settles, by returning or by throwing
SelectSettles == pending # << >> /\ pending' = << >>

\* the suspended call returns a result, which is lastResult'
SelectReturns == SelectSettles /\ ~rejected'

Returned == lastResult.status = "ok"

RECURSIVE SumTo(_, _)
SumTo(f, n) == IF n = 0 THEN 0 ELSE f[n] + SumTo(f, n - 1)

\* number of results returned since construction or reset(), while no id
\* has reached TimesCap
ReturnedCount == SumTo(timesReturned, Len(allSongs))

\* C1, as claimed: with wildcard mode disabled, no track id is returned a
\* second time before every track id has been returned at least once
\* (stated for the thresholds a score can reach).
C1_NoRepeatBeforeCoverage ==
  (~options.useMagicNumber /\ options.minCompatibilityScore <= 10) =>
    \A i \in AllIds : timesReturned[i] >= 2 => \A j \in AllIds : timesReturned[j] >= 1

\* C1, amended: with wildcard mode disabled and minCompatibilityScore <= 10,
\* a track id is returned again only after the played-set was cleared by an
\* automatic reset since that id's previous return: the id a call returns
\* is none of the ids returned since the played-set was last cleared.
C1_NoRepeatWithoutReset ==
  [][(SelectReturns /\ ~options.useMagicNumber /\ options.minCompatibilityScore <= 10)
       => lastResult'.song \notin returnedSinceReset]_vars

\* an id was returned twice, after an automatic reset, while another id of
\* the catalogue has not been returned yet
C1_Witness ==
  /\ ~options.useMagicNumber /\ options.minCompatibilityScore <= 10
  /\ ops = 0 /\ Returned
  /\ timesReturned[lastResult.song] = 2
  /\ \E j \in AllIds : timesReturned[j] = 0

\* C2, as claimed: a serialized selectTrack() call returns a result and
\* never throws.
C2_NeverThrows == ~rejected

C5_KeyAdvance ==
  [][SelectSettles =>
       currentKey' = IF pending[1].position = 1 THEN currentKey
                     ELSE nextKey(currentKey, direction)]_vars

\* C6, as claimed: for every call the compatibility score is the score
\* between the key the track was selected with and the chosen track's key.
C6_ScoreFromSelectionKey ==
  [][SelectReturns =>
       lastResult'.compatibilityScore =
         scoreCompatibility(pending[1].keyAtStart, allSongs[lastResult'.song])]_vars

\* C6, amended: for the first call after construction or reset() the
\* compatibility score is the score between the key the track was selected
\* with and the chosen track's key.
C6_FirstScoreFromSelectionKey ==
  [][(SelectReturns /\ pending[1].position = 1) =>
       lastResult'.compatibilityScore =
         scoreCompatibility(pending[1].keyAtStart, allSongs[lastResult'.song])]_vars

\* a first call that returned a track of another key than the current one
C6_Witness ==
  /\ Returned /\ trackCount = 1 /\ pending = << >>
  /\ allSongs[lastResult.song] # currentKey
  /\ lastResult.compatibilityScore < 10

\* C7: the compatibility score of a result is the score between the
\* current key after the call's key step and the chosen track's key.
C7_ScoreFromKeyAfterStep ==
  [][SelectReturns =>
       lastResult'.compatibilityScore =
         scoreCompatibility(currentKey', allSongs[lastResult'.song])]_vars

\* a later call, whose key step changed the score of the chosen track
C7_Witness ==
  /\ Returned /\ trackCount = 2 /\ ReturnedCount = 2 /\ pending = << >>
  /\ lastResult.compatibilityScore
       # scoreCompatibility(nextKey(currentKey, IF direction = "forward"
                                                  THEN "reverse" ELSE "forward"),
                            allSongs[lastResult.song])

C9_WildcardFromUnplayed ==
  [][(SelectReturns /\ pending[1].isMagicNumber) =>
       IF pending[1].playedAtStart = AllIds
         THEN pending[1].didReset /\ playedIds' = {lastResult'.song}
         ELSE /\ ~pending[1].didReset
              /\ lastResult'.song \notin pending[1].playedAtStart
              /\ playedIds' = pending[1].playedAtStart \cup {lastResult'.song}]_vars

\* a wildcard call that found a track unplayed and chose it, a track that
\* scores below the minimum against the key of the call
C9_Witness ==
  /\ Returned /\ lastResult.wasMagicNumber /\ pending = << >>
  /\ Cardinality(playedIds) = 2
  /\ options.minCompatibilityScore <= 10
  /\ \A d \in {"forward", "reverse"} :
       scoreCompatibility(nextKey(currentKey, d), allSongs[lastResult.song])
         < options.minCompatibilityScore

\* C10, as claimed: starting a call raises trackCount by one, nothing but
\* reset() changes it otherwise, and every call started completes with a
\* result.
C10_CountAndCompletion ==
  [][/\ Len(pending') > Len(pending) => trackCount' = trackCount + 1
     /\ Len(pending') <= Len(pending) => trackCount' \in {trackCount, 0}
     /\ ~rejected']_vars

----------------------------------------------------------------------------
(* Properties of reset() and of the library's own operations, in           *)
(* LibrarySpec                                                             *)

\* what reset(resetLibrary, resetKeyManager) leaves behind
ResetEffect(resetLibrary, resetKeyManager) ==
  /\ trackCount' = 0
  /\ currentTempo' = DefaultTempo
  /\ lastTrackType' = "body"
  /\ playedIds' = (IF resetLibrary THEN {} ELSE playedIds)
  /\ IF resetKeyManager
       THEN currentKey' = 1 /\ direction' = "forward"
       ELSE currentKey' = currentKey /\ direction' = direction

\* C11: reset(resetLibrary, resetKeyManager) always sets trackCount to 0,
\* the tempo to its default and lastTrackType to its initial value; it
\* clears the played-set exactly when resetLibrary is true and returns key
\* and direction to their defaults exactly when resetKeyManager is true,
\* leaving the other sub-component as it was; and the call that follows a
\* reset behaves as a first call (a lead, without a key step).
C11_ResetEffect ==
  [][/\ \A l, k \in BOOLEAN : Reset(l, k) => ResetEffect(l, k)
     /\ (SelectReturns /\ pending[1].position = 1) =>
          (lastResult'.type = "lead" /\ currentKey' = currentKey)]_vars

\* after a change of tempo or direction, two calls and reset(false, false):
\* the played-set and the advanced key are kept, the count is back at 0
C11_Witness ==
  /\ ops = 2 /\ trackCount = 0 /\ lastResult = NoResult /\ lastTrackType = "body"
  /\ currentTempo = DefaultTempo
  /\ Cardinality(playedIds) = 2 /\ playedIds \subseteq AllIds
  /\ currentKey \notin StartKeys \cup {1}

\* C20, as claimed: every id in the played-set is the id of a song of the
\* catalogue.
C20_PlayedInCatalogue == playedIds \subseteq AllIds

----------------------------------------------------------------------------
(* Properties of the random source's cache, in CacheSpec *)

Digits(seq) == {seq[i] : i \in 1..Len(seq)}

\* C12: hexadecimal(length), length > 0, returns exactly length digits in
\* every cache state: the digits at the head of the cache first, fallback
\* digits for the shortfall; it leaves the rest of the cache behind and
\* completes while a refill in flight stays in flight.
C12_HexLength ==
  [][\A n \in 1..MaxHex : GetHexadecimal(n) =>
       /\ qResult'.error = "none"
       /\ Len(qResult'.hex) = n
       /\ qResult'.hex = sliceTo(cache, n) \o getCryptoHex(n - Len(cache))
       /\ cache' = sliceFrom(cache, IF n < Len(cache) THEN n ELSE Len(cache))
       /\ (requests # << >> => requests' = requests)]_vars

\* a hexadecimal() call made while a refill was in flight, which took the
\* whole cache and fallback digits after it
C12_Witness ==
  /\ qResult.op = "hexadecimal" /\ qResult.error = "none"
  /\ qResult.hex[1] = "s" /\ "c" \in Digits(qResult.hex)
  /\ cache = << >>
  /\ requests # << >> /\ requests[1] # qOptions.cacheSize

\* C13, as claimed: between operations the cache is never longer than the
\* configured capacity.
C13_CacheWithinCapacity == Len(cache) <= qOptions.cacheSize

\* C14: at most one fetch is in flight at any time, and a step taken while
\* isRefilling is true starts none.
C14_OneRefill ==
  [][/\ Len(requests') <= 1
     /\ (isRefilling => Len(requests') <= Len(requests))]_vars

\* a hexadecimal() call that left the cache below the threshold while the
\* fetch sent earlier was still in flight
C14_Witness ==
  /\ qResult.op = "hexadecimal" /\ qResult.error = "none"
  /\ belowThreshold(qOptions, cache)
  /\ isRefilling /\ Len(requests) = 1
  /\ requests[1] # qOptions.cacheSize - Len(cache)

\* C15, as claimed: with storage available, after each hexadecimal() call
\* the storage item equals the cache the call left behind.
C15_StoredIsResidual ==
  [][\A n \in 1..MaxHex : (GetHexadecimal(n) /\ qOptions.storage) =>
       stored' = <<cache'>>]_vars

\* C16: a refill that fails tops the cache up to exactly its capacity with
\* fallback digits and saves it, and no caller sees the failure: the
\* outcome of the call made last stays as it was.
C16_FailedRefillTopsUp ==
  [][\A i \in 1..Len(requests) : RefillFails(i) =>
       /\ Len(cache') = qOptions.cacheSize
       /\ cache' = cache \o getCryptoHex(qOptions.cacheSize - Len(cache))
       /\ (qOptions.storage => stored' = <<cache'>>)
       /\ ~isRefilling'
       /\ qResult' = qResult]_vars

\* a refill failed after a hexadecimal() call: the cache is full, its tail made of
\* fallback digits behind digits read from storage, and it is saved
C16_Witness ==
  /\ Len(cache) = qOptions.cacheSize
  /\ cache[1] = "s" /\ cache[Len(cache)] = "c"
  /\ stored = <<cache>>
  /\ ~isRefilling
  /\ qResult.op = "hexadecimal" /\ qResult.error = "none"

\* a call whose arguments are invalid
InvalidCall ==
  \/ \E n \in -1..0 : GetHexadecimal(n)
  \/ \E min, max \in Numbers :
       /\ ~isInteger(min) \/ ~isInteger(max) \/ greater(min, max)
       /\ GetInteger(min, max)
  \/ GetChoice(0)
  \/ \E n \in 0..1, count \in -1..2 :
       /\ count > n \/ count < 0
       /\ GetUniqueChoices(n, count)

\* C19: hexadecimal(length <= 0), integer() with a non-integer bound or
\* min > max, choice([]) and uniqueChoices() with count > length or
\* count < 0 fail with an argument error and leave the cache, the storage
\* item and the refill state as they were.
C19_ArgumentErrors ==
  [][InvalidCall =>
       /\ qResult'.error = "argument"
       /\ qResult'.hex = << >>
       /\ UNCHANGED <<cache, stored, isRefilling, requests>>]_vars

\* integer(min, max) with min > max failed while the cache held digits and
\* a refill was in flight
C19_Witness ==
  /\ qResult.op = "integer" /\ qResult.error = "argument"
  /\ isInteger(qResult.args[1]) /\ isInteger(qResult.args[2])
  /\ cache # << >> /\ stored = <<cache>>
  /\ isRefilling /\ requests # << >>

----------------------------------------------------------------------------
(* Properties of getInteger, in IntegerSpec, and of shuffle, in ShuffleSpec *)

\* C17, as claimed: for min <= max and every 16-digit draw,
\* integer(min, max) returns r with min <= r <= max.
C17_IntegerInRange ==
  probe.fn = "getInteger" =>
    (probe.in[1] <= probe.out[1] /\ probe.out[1] <= probe.in[2])

\* the number of elements of seq equal to e
Count(seq, e) == Cardinality({i \in 1..Len(seq) : seq[i] = e})

\* C18, as claimed: shuffle(arr) returns an array of the length of arr
\* with the same multiset of elements, for every sequence of draws.
C18_ShufflePermutes ==
  probe.fn = "shuffle" =>
    /\ Len(probe.out) = Len(probe.in[1])
    /\ \A e \in Elements \cup {Undefined} :
         Count(probe.out, e) = Count(probe.in[1], e)

----------------------------------------------------------------------------
(* Properties of the construction of the catalogue, in ConstructSpec *)

\* the list is one the catalogue is not to be built from
InvalidList(songs) ==
  \/ Len(songs) = 0
  \/ \E i \in 1..Len(songs) :
       \/ songs[i].id <= 0
       \/ \E j \in 1..Len(songs) : j # i /\ songs[j].id = songs[i].id
       \/ songs[i].artist = ""
       \/ songs[i].title = ""
       \/ songs[i].key < 1 \/ songs[i].key > 12
       \/ songs[i].bpm \notin {84, 94, 102}

\* C21: construction of the catalogue fails with a validation error if the
\* list is empty, an id is non-positive or duplicated, an artist or title
\* is empty, a key is outside 1..12 or a tempo is not an allowed one, and
\* then no catalogue exists; it succeeds for every other list.
C21_ConstructionValidates ==
  probe.fn = "SongLibrary" =>
    IF InvalidList(probe.in[1])
      THEN probe.out[1].error # "none" /\ probe.out[1].library = << >>
      ELSE probe.out[1].error = "none" /\ probe.out[1].library = <<probe.in[1]>>

\* a list of two songs, sound but for the id they share, was rejected
C21_Witness ==
  /\ probe.fn = "SongLibrary"
  /\ Len(probe.in[1]) = 2
  /\ probe.in[1][1].id = probe.in[1][2].id
  /\ \A i \in 1..2 : /\ probe.in[1][i].id >= 1
                       /\ probe.in[1][i].artist # "" /\ probe.in[1][i].title # ""
                       /\ probe.in[1][i].key \in 1..12 /\ probe.in[1][i].bpm = 94
  /\ probe.out[1].error = "Duplicate song ID"
  /\ probe.out[1].library = << >>

----------------------------------------------------------------------------
(* Properties of the key manager, in KeySpec, DistanceSpec and ScoreSpec *)

\* C22: one next() maps k to k+1 (12 to 1) forward and to k-1 (1 to 12) in
\* reverse, and twelve next() calls under a fixed direction visit each of
\* the twelve keys once and end on the start key.
C22_NextCycles ==
  /\ \A i \in 1..Len(probe.out) :
       LET before == IF i = 1 THEN probe.in[1] ELSE probe.out[i - 1]
       IN probe.out[i] = IF probe.in[2] = "forward"
                           THEN (before % 12) + 1
                           ELSE ((before + 10) % 12) + 1
  /\ Len(probe.out) >= 12 =>
       /\ probe.out[12] = probe.in[1]
       /\ {probe.out[i] : i \in 1..12} = 1..12

\* a walk of twelve steps in reverse from key 5 is back on key 5
C22_Witness ==
  /\ probe.fn = "next" /\ Len(probe.out) = 12
  /\ probe.in = <<5, "reverse">> /\ currentKey = 5

\* the number of next() steps from fromKey to toKey in direction dir
RECURSIVE StepsBetween(_, _, _)
StepsBetween(fromKey, toKey, dir) ==
  IF fromKey = toKey THEN 0 ELSE 1 + StepsBetween(nextKey(fromKey, dir), toKey, dir)

\* C23: getDistance(from, to, direction) is the number of next() steps in
\* that direction (the current one when none is given) from `from` to
\* `to`, lies in 0..11 and is 0 exactly when from = to; the call leaves the
\* current key and direction as they are.
C23_DistanceIsSteps ==
  [][ApplyGetDistance =>
       LET dir == IF probe.in[3] = "undefined" THEN direction ELSE probe.in[3]
           d == probe'.out[1]
       IN /\ d = StepsBetween(probe.in[1], probe.in[2], dir)
          /\ d \in 0..11
          /\ (d = 0 <=> probe.in[1] = probe.in[2])
          /\ UNCHANGED keyVars]_vars

\* a distance that wraps round: from 3 to 1 in the current direction,
\* which is forward, in ten steps
C23_Witness ==
  /\ probe.fn = "getDistance" /\ probe.in = <<3, 1, "undefined">>
  /\ direction = "forward" /\ probe.out = <<10>>

\* C24: scoreCompatibility is symmetric, lies in 1..10 and is 10 for equal
\* keys; score(1, 8) = 9 and score(1, 6) = 1.
C24_ScoreSymmetric ==
  probe.fn = "scoreCompatibility" =>
    LET a == probe.in[1]
        b == probe.in[2]
    IN /\ probe.out[1] = scoreCompatibility(b, a)
       /\ probe.out[1] \in 1..10
       /\ (a = b => probe.out[1] = 10)
       /\ (a = 1 /\ b = 8 => probe.out[1] = 9)
       /\ (a = 1 /\ b = 6 => probe.out[1] = 1)

\* the score of the pair (8, 1), the mirror of the spot value (1, 8)
C24_Witness ==
  probe.fn = "scoreCompatibility" /\ probe.in = <<8, 1>> /\ probe.out = <<9>>

----------------------------------------------------------------------------
(* Properties of the engine, in EngineSpec *)

\* C25: the engine state changes only by start() from idle or stopped to
\* running, pause() from running to paused, resume() from paused to
\* running, stop() to stopped and reset() to idle; start() while running or
\* paused, next() while not running, pause() while not running and
\* resume() while not paused throw and leave the state as it is.
C25_StateTransitions ==
  [][/\ state' # state =>
          \/ EngineStart /\ state \in {"idle", "stopped"} /\ state' = "running"
          \/ EnginePause /\ state = "running" /\ state' = "paused"
          \/ EngineResume /\ state = "paused" /\ state' = "running"
          \/ EngineStop /\ state' = "stopped"
          \/ \E l, k \in BOOLEAN : EngineReset(l, k) /\ state' = "idle"
     /\ (EngineStart /\ state \in {"idle", "stopped"}) =>
          state' = "running" /\ engineResult'.error = "none"
     /\ (EnginePause /\ state = "running") =>
          state' = "paused" /\ engineResult'.error = "none"
     /\ (EngineResume /\ state = "paused") =>
          state' = "running" /\ engineResult'.error = "none"
     /\ EngineStop => state' = "stopped" /\ engineResult'.error = "none"
     /\ (\A l, k \in BOOLEAN : EngineReset(l, k) => state' = "idle")
     /\ (EngineStart /\ state \in {"running", "paused"}) =>
          engineResult'.error # "none" /\ state' = state
     /\ (EngineNext /\ state # "running") =>
          engineResult'.error # "none" /\ state' = state
     /\ (EnginePause /\ state # "running") =>
          engineResult'.error # "none" /\ state' = state
     /\ (EngineResume /\ state # "paused") =>
          engineResult'.error # "none" /\ state' = state]_vars

\* pause() has just thrown on a stopped engine that has a selection
\* outstanding
C25_Witness ==
  /\ state = "stopped"
  /\ engineResult = EngineCall("pause", "Cannot pause from state")
  /\ pending # << >>

\* C26, as claimed: while the engine is stopped, getCurrentTrack() returns
\* null.
C26_StoppedHasNoTrack ==
  state = "stopped" => currentTrack = Null

----------------------------------------------------------------------------
(* Properties of the loader, in LoaderSpec *)

\* C27: during a load() with maxConcurrent >= 1, the requests that have
\* started loading and have not settled are never more than maxConcurrent.
C27_ConcurrencyLimit ==
  loaderOptions.maxConcurrent >= 1 =>
    \A l \in 1..Len(loads) :
      Cardinality(inProgress(loads[l])) <= loaderOptions.maxConcurrent

\* with room for one, the second request was started only after the first
\* had settled
C27_Witness ==
  /\ loaderOptions.maxConcurrent = 1
  /\ Len(loads) = 1 /\ loads[1].total = 2
  /\ loads[1].req[1].phase = "loaded"
  /\ loads[1].req[2].phase = "fetching"

\* C28: a request is attempted at most retries + 1 times, no attempt
\* follows its success, and the request is reported as failed, once and
\* with attempts = retries + 1, exactly when retries + 1 attempts have
\* failed.
C28_BoundedRetries ==
  \A l \in 1..Len(loads) : \A r \in 1..loads[l].total :
    LET q == loads[l].req[r]
        most == loaderOptions.defaultRetries + 1
    IN /\ q.fetches <= most
       /\ q.failures <= q.fetches
       /\ (q.phase = "loaded" => q.fetches = q.failures + 1 /\ q.reports = 0)
       /\ q.reports <= 1
       /\ (q.reports = 1 <=> q.failures = most)
       /\ (q.reports = 1 =>
             q.phase = "failed" /\ q.reportedAttempts = most /\ q.fetches = most)

\* with one retry, a request failed twice and was reported, and another
\* succeeded at its second attempt
C28_Witness ==
  /\ loaderOptions.defaultRetries = 1
  /\ Len(loads) = 1 /\ loads[1].total = 2
  /\ loads[1].req[1] = [phase |-> "failed", fetches |-> 2, failures |-> 2,
                         reports |-> 1, reportedAttempts |-> 2]
  /\ loads[1].req[2].phase = "loaded" /\ loads[1].req[2].fetches = 2

\* C29, as claimed: a load() during which cancel() was called rejects with
\* CancelledError and emits 'cancelled' and not 'complete'.
C29_CancelRejects ==
  \A l \in 1..Len(loads) :
    (loads[l].cancelRequested /\ loads[l].status # "running") =>
      /\ loads[l].status = "CancelledError"
      /\ "cancelled" \in loads[l].emitted
      /\ "complete" \notin loads[l].emitted

\* C30, as claimed: when a load() has finished without cancellation, its
\* last progress event has loaded + failed = total and percentage 100.
C30_FinalProgress ==
  \A l \in 1..Len(loads) :
    (loads[l].status \in {"resolved", "LoadError"} /\ loads[l].total > 0) =>
      /\ loads[l].lastProgress[1].loaded + loads[l].lastProgress[1].failed
           = loads[l].total
      /\ loads[l].lastProgress[1].percentage = 100

----------------------------------------------------------------------------
(* Properties of the buffer cache, in BufferSpec *)

\* C31: after every set() (and after every other operation) the cache
\* holds at most maxSize entries and its tracked memory, the sum of its
\* entries' sizes, is at most maxMemoryBytes.
C31_WithinLimits ==
  /\ Len(buffers.entries) <= buffers.maxSize
  /\ buffers.currentMemoryBytes <= buffers.maxMemoryBytes
  /\ buffers.currentMemoryBytes =
       SumTo([i \in 1..Len(buffers.entries) |-> buffers.entries[i].sizeBytes],
             Len(buffers.entries))

\* a set() of a buffer larger than the memory limit evicted an older entry
\* and then the buffer itself
C31_Witness ==
  /\ buffers.last.op = "set" /\ buffers.last.sizeBytes > buffers.maxMemoryBytes
  /\ buffers.maxSize = 2
  /\ Len(buffers.evicted) = 2
  /\ buffers.entries = << >>

\* C32, as claimed: every entry a set() evicts is the entry accessed least
\* recently, by set() or get(), in the order of the operations.
C32_EvictsLeastRecent ==
  \A i \in 1..Len(buffers.evicted) : buffers.evicted[i].id = buffers.evicted[i].lru

----------------------------------------------------------------------------
(* Further properties of selectTrack(): C33 and C34 in serialized use
   (SerialSpec), C35 for overlapping calls (Spec) *)

\* the tracks of the key the call began at that were unplayed when it began
UnplayedAtKey(call) ==
  {i \in AllIds \ call.playedAtStart : allSongs[i] = call.keyAtStart}

\* C33: a non-wildcard call with minCompatibilityScore <= 10 that finds an
\* unplayed track at the current key chooses an unplayed track of that key
\* and does not reset the played-set.
C33_CurrentKeyFirst ==
  [][(SelectReturns /\ ~pending[1].isMagicNumber
        /\ options.minCompatibilityScore <= 10
        /\ UnplayedAtKey(pending[1]) # {}) =>
       /\ lastResult'.song \in UnplayedAtKey(pending[1])
       /\ ~pending[1].didReset
       /\ playedIds' = pending[1].playedAtStart \cup {lastResult'.song}]_vars

\* a call chose a track of the current key while a track of another key
\* was unplayed as well
C33_Witness ==
  /\ Returned /\ pending = << >> /\ ops = 0 /\ trackCount = 1
  /\ ~lastResult.wasMagicNumber
  /\ options.minCompatibilityScore <= 10
  /\ allSongs[lastResult.song] = currentKey
  /\ playedIds = {lastResult.song}
  /\ \E j \in AllIds : allSongs[j] # currentKey

\* C34, as claimed: in serialized use with minCompatibilityScore <= 10 each
\* call raises the played count by exactly one or, having reset the
\* catalogue, leaves it at exactly one.
C34_EveryCallMarks ==
  [][(SelectSettles /\ options.minCompatibilityScore <= 10) =>
       IF pending[1].didReset
         THEN Cardinality(playedIds') = 1
         ELSE Cardinality(playedIds') = Cardinality(pending[1].playedAtStart) + 1]_vars

\* C34 for the calls that return: the chosen track is not in the played-set
\* when it is marked played; the call raises the played count by one or,
\* having reset the catalogue, leaves it at one, and the chosen id is in
\* the played-set when the call returns.
C34_MarksUnplayed ==
  [][(SelectReturns /\ options.minCompatibilityScore <= 10) =>
       /\ lastResult'.song \notin playedIds
       /\ lastResult'.song \in playedIds'
       /\ IF pending[1].didReset
            THEN Cardinality(playedIds') = 1
            ELSE Cardinality(playedIds') = Cardinality(pending[1].playedAtStart) + 1]_vars

\* a call reset the catalogue and left the chosen track as the only played
\* one, after more than one track had been played
C34_Witness ==
  /\ Returned /\ pending = << >> /\ ops = 0
  /\ options.minCompatibilityScore <= 10
  /\ trackCount >= 3
  /\ playedIds = {lastResult.song}

\* C35, as claimed: of two overlapping selectTrack() calls the one that
\* made its selection later, returning last, does not return the id the
\* other returned, unless its selection reset the catalogue.
C35_OverlapDistinct ==
  [][(FinishSelect(1) /\ Len(pending) = 1 /\ ops = 0
        /\ pending[1].position = trackCount
        /\ lastResult.status = "ok"
        /\ lastResult.song \notin pending[1].playedAtStart
        /\ ~pending[1].didReset) =>
       lastResult'.song # lastResult.song]_vars

----------------------------------------------------------------------------
(* Properties of the background refill of QuantumRandom: C36 (CacheSpec)   *)

\* the cache is shorter than capacity x threshold
ShortOfThreshold ==
  Len(cache) * qOptions.threshold.den < qOptions.cacheSize * qOptions.threshold.num

\* C36: a hexadecimal() call that leaves the cache shorter than capacity x
\* threshold while no refill is in flight has started a refill when it
\* returns (isRefilling is true, the request is in flight and the call has
\* its digits); a call that leaves the cache at or above the threshold, or
\* finds a refill in flight, starts none.
C36_RefillTriggered ==
  [][\A length \in 1..MaxHex :
       GetHexadecimal(length) =>
         /\ qResult'.error = "none"
         /\ Len(qResult'.hex) = length
         /\ IF ShortOfThreshold' /\ ~isRefilling
              THEN /\ isRefilling'
                   /\ requests' = Append(requests, qOptions.cacheSize - Len(cache'))
              ELSE /\ requests' = requests
                   /\ isRefilling' = isRefilling]_vars

\* a call took the cache from at or above the threshold to below it and
\* returned with its digits while the refill it started is in flight
C36_Witness ==
  /\ qResult.op = "hexadecimal" /\ qResult.error = "none"
  /\ ShortOfThreshold
  /\ (Len(qResult.hex) + Len(cache)) * qOptions.threshold.den
       >= qOptions.cacheSize * qOptions.threshold.num
  /\ Len(qResult.hex) + Len(cache) <= qOptions.cacheSize
  /\ isRefilling
  /\ requests = <<qOptions.cacheSize - Len(cache)>>

\* C37: every refill that starts ends, and isRefilling is false again.
C37_RefillEnds == isRefilling ~> ~isRefilling

\* a refill ended with the service's digits and, the cache having dropped
\* below the threshold again, a new refill is in flight
C37_Witness ==
  /\ isRefilling
  /\ Len(requests) = 1
  /\ \E k \in 1..Len(cache) : cache[k] = "q"

----------------------------------------------------------------------------
(* Further properties of the engine (EngineSpec) and of the loader
   (LoaderSpec) *)

\* a call of start, next, pause, resume, stop or reset
EngineCallStep ==
  \/ EngineStart \/ EngineNext \/ EnginePause \/ EngineResume \/ EngineStop
  \/ \E l, k \in BOOLEAN : EngineReset(l, k)

\* C38, as claimed: a call of start, pause, resume, stop or reset that
\* changes the engine state emits exactly one stateChange event, carrying
\* the new and the previous state, and a call that leaves the state as it
\* is emits none.
C38_OneStateChangeEvent ==
  [][EngineCallStep =>
       engineResult'.events =
         IF state' # state
           THEN <<[state |-> state', previousState |-> state]>>
           ELSE << >>]_vars

\* C39, as claimed: after the 'cancelled' event of a load() no fileLoaded,
\* fileFailed or progress event is emitted for a request of that load.
C39_NothingAfterCancelled ==
  \A l \in 1..Len(loads) : ~loads[l].late

\* load l has resolved or rejected
Settled(l) ==
  Len(loads) >= l /\ loads[l].status \in {"resolved", "LoadError", "CancelledError"}

\* C40, as claimed: every load() settles, whatever maxConcurrent and the
\* retry count are, when every fetch and decode settles.
C40_LoadSettles ==
  \A l \in 1..MaxLoads : (Len(loads) >= l) ~> Settled(l)

\* with maxConcurrent >= 1 every load() settles
C40_SettlesWithRoom ==
  \A l \in 1..MaxLoads :
    (Len(loads) >= l /\ loaderOptions.maxConcurrent >= 1) ~> Settled(l)

====
